---- MODULE Spec2Model ----
(***************************************************************************)
(* A model of src/Game.py (jeopardy 0.6.0-dev): the construction of a Game *)
(* from a document, Game.score_graph / Game._make_score_data with the      *)
(* contestants' score buffers, Clue.correct, and Game.__dict__ /           *)
(* Game(load=True, ...).                                                   *)
(*                                                                         *)
(* Python values are modelled as follows.                                  *)
(*   None            the empty tuple <<>>; a present value x is <<x>>      *)
(*   str that is parsed   a tuple of one-character strings                 *)
(*   list            a tuple                                               *)
(*   list object     an index into heap (lists are mutable and shared:     *)
(*                   score_data holds the very lists of the contestants)   *)
(*   raise E         the name of E in err / in the "err" field of a result *)
(***************************************************************************)
EXTENDS Integers, Sequences, FiniteSets, TLC

VARIABLES
    doc,          \* the document handed to Game.__init__ (page_source, url)
    pc,           \* position of the Game object: "new", "built", "failed"
    err,          \* the exception Game.__init__ raised, "none" if it returned
    game,         \* the attributes Game.__init__ has set (see NoGame)
    contestants,  \* Game.contestants: tuple of Contestant records
    heap,         \* the list objects that serve as score_series
    score_data,   \* Game.score_data: None or the dict of _make_score_data
    frame,        \* per caller: the position and locals of its score_graph call
    ret,          \* per caller: what its last score_graph() returned
    calls,        \* number of score_graph calls begun (bounded by MaxCalls)
    builds,       \* number of times _make_score_data has been entered
    first_ret,    \* the series the first completed score_graph() returned
    build_out,    \* per completed run of _make_score_data, the series it returned
    restored,     \* Game(load=True, **g.__dict__()) and its score_graph()
    probe         \* a Clue.correct query: its input and its result

vars == <<doc, pc, err, game, contestants, heap, score_data, frame, ret,
          calls, builds, first_ret, build_out, restored, probe>>

----------------------------------------------------------------------------
(* Bounds of the model *)

\* most clue fragments (first and second round together) of a document
MaxClues == 2
\* largest order number a clue_order_number cell carries
MaxOrder == 2
\* most clue cells of a document whose cells name any round (SpecParse)
MaxCells == 2
\* the largest order number of a round of a regular game (SpecOrders)
MaxReveal == 30
\* most score_graph() calls of one run
MaxCalls == 3
\* most extra direct runs of _make_score_data of one run (SpecRebuild)
MaxRebuilds == 1
\* longest response-event list handed to Clue.correct (SpecCorrect)
MaxEvents == 3

----------------------------------------------------------------------------
(* Python values *)

None == <<>>
Some(x) == <<x>>
IsNone(o) == o = <<>>
The(o) == o[1]

\* Game.rounds
rounds == <<"jeopardy_round", "double_jeopardy_round", "final_jeopardy_round">>

\* Contestant.__init__: self.score_series = [0]*70
BufLen == 70

\* s[:n] of a Python list, for n >= 0
Prefix(s, n) == IF n >= Len(s) THEN s ELSE SubSeq(s, 1, n)

\* Python index i (0-based) of a list of length n is in range; negative
\* indices count from the end
InRange(i, n) == -n <= i /\ i < n
\* the 1-based position Python index i denotes
Pos(i, n) == IF i >= 0 THEN i + 1 ELSE n + i + 1

----------------------------------------------------------------------------
(* str methods, on tuples of characters *)

Digits == <<"0", "1", "2", "3", "4", "5", "6", "7", "8", "9">>
IsDigit(c) == \E d \in 1..10 : Digits[d] = c
DigitVal(c) == (CHOOSE d \in 1..10 : Digits[d] = c) - 1

RECURSIVE LStrip(_, _)
\* s.lstrip(chars)
LStrip(s, chars) ==
    IF s # <<>> /\ Head(s) \in chars THEN LStrip(Tail(s), chars) ELSE s

RECURSIVE RStrip(_, _)
\* s.rstrip(chars)
RStrip(s, chars) ==
    IF s # <<>> /\ s[Len(s)] \in chars
    THEN RStrip(SubSeq(s, 1, Len(s) - 1), chars) ELSE s

\* s.strip(chars); s.strip() is StrStrip(s, {" "})
StrStrip(s, chars) == RStrip(LStrip(s, chars), chars)

\* s[n:]
Drop(s, n) == IF n >= Len(s) THEN <<>> ELSE SubSeq(s, n + 1, Len(s))

RECURSIVE Remove(_, _)
\* s.replace(c, '')
Remove(s, c) ==
    IF s = <<>> THEN <<>>
    ELSE IF Head(s) = c THEN Remove(Tail(s), c)
    ELSE <<Head(s)>> \o Remove(Tail(s), c)

RECURSIVE DigitsValue(_, _)
DigitsValue(s, acc) ==
    IF s = <<>> THEN acc ELSE DigitsValue(Tail(s), 10 * acc + DigitVal(Head(s)))

\* int(t) for t without surrounding blanks
PyIntOf(t) ==
    IF t # <<>> /\ \A i \in 1..Len(t) : IsDigit(t[i])
    THEN [err |-> "none", val |-> DigitsValue(t, 0)]
    ELSE [err |-> "ValueError", val |-> 0]

\* int(s): surrounding blanks are ignored; anything but a non-empty run of
\* digits raises ValueError (no sign or underscore occurs in the inputs)
PyInt(s) == PyIntOf(StrStrip(s, {" "}))

----------------------------------------------------------------------------
(* Game.__init__: the fields of the title and the roster *)

\* url.split('=')[-1], the url given as its '='-separated segments
IdOf(url) == url[Len(url)]

\* name.split(" ")[0], the name given as its blank-separated words
FirstName(name) == IF name = <<>> THEN "" ELSE Head(name)

\* Contestant.__init__; score_series is the index of a fresh list in heap
Contestant(name, link, flavor, buf) ==
    [name |-> name, first_name |-> FirstName(name), link |-> link,
     flavor |-> flavor, score_series |-> buf]

\* Game._set_contestants: one Contestant per <p class="contestants">
SetContestants(d) ==
    [i \in 1..Len(d.roster) |->
        Contestant(d.roster[i].name, d.roster[i].link, d.roster[i].flavor, i)]

\* a variant of FreshHeap with lists of 60 slots
FreshHeapShort(d) == [i \in 1..Len(d.roster) |-> [k \in 1..(BufLen - 10) |-> 0]]

\* the lists Game._set_contestants allocates: [0]*70 each
FreshHeap(d) == [i \in 1..Len(d.roster) |-> [k \in 1..BufLen |-> 0]]

\* category.text.lower(), on the category names that occur
Lower(s) ==
    CASE s = "HISTORY" -> "history"
      [] s = "Science" -> "science"
      [] s = "OPERA" -> "opera"
      [] s = "Rivers" -> "rivers"
      [] s = "POETS" -> "poets"
      [] OTHER -> s

RoundNames == {rounds[i] : i \in 1..3}

\* Game._set_categories: per round, the lower-cased category_name cells of
\* the round's container; a round without container makes
\* round_tag.find_all raise AttributeError (round_tag is None)
SetCategories(d) ==
    IF \E r \in RoundNames : IsNone(d.containers[r])
    THEN [err |-> "AttributeError", categories |-> <<>>]
    ELSE [err |-> "none",
          categories |->
            [r \in RoundNames |->
                [k \in 1..Len(The(d.containers[r])) |->
                    Lower(The(d.containers[r])[k])]]]

----------------------------------------------------------------------------
(* Clue.__init__ and the methods it calls *)

\* the round a coordinate code names
RoundOfCode(rnd) ==
    CASE rnd = "J" -> "jeopardy_round"
      [] rnd = "DJ" -> "double_jeopardy_round"
      [] rnd = "FJ" -> "final_jeopardy_round"

\* lines 417-421: the coordinates name another round than self.round_
Mismatch(rnd, self_round) ==
    \/ (rnd = "J" /\ self_round # "jeopardy_round")
    \/ (rnd = "DJ" /\ self_round # "double_jeopardy_round")
    \/ (rnd = "FJ" /\ self_round # "final_jeopardy_round")

\* a variant of CategoryIn that takes the column as a Python index
CategoryInAtColumn(round2, warned, frag, cats) ==
    IF frag.idrnd = "FJ" \/ ~InRange(frag.col, Len(cats))
    THEN [err |-> IF Len(cats) = 0 \/ frag.idrnd # "FJ"
                  THEN "IndexError" ELSE "none",
          round_ |-> round2, warned |-> warned,
          row |-> None, column |-> None,
          category |-> IF Len(cats) = 0 THEN "" ELSE cats[1]]
    ELSE [err |-> "none", round_ |-> round2, warned |-> warned,
          row |-> Some(frag.row), column |-> Some(frag.col),
          category |-> cats[Pos(frag.col, Len(cats))]]

\* lines 430-438 with self.round_ = round2 and cats its categories
CategoryIn(round2, warned, frag, cats) ==
    IF frag.idrnd = "FJ"
    THEN IF Len(cats) = 0
         THEN [err |-> "IndexError", round_ |-> round2, warned |-> warned,
               row |-> None, column |-> None, category |-> ""]
         ELSE [err |-> "none", round_ |-> round2, warned |-> warned,
               row |-> None, column |-> None, category |-> cats[1]]
    ELSE IF ~InRange(frag.col - 1, Len(cats))
         THEN [err |-> "IndexError", round_ |-> round2, warned |-> warned,
               row |-> None, column |-> None, category |-> ""]
         ELSE [err |-> "none", round_ |-> round2, warned |-> warned,
               row |-> Some(frag.row), column |-> Some(frag.col),
               category |-> cats[Pos(frag.col - 1, Len(cats))]]

\* a variant of SetCategory that keeps the round of the container
SetCategoryKeepsRound(self_round, frag, categories) ==
    CategoryIn(self_round, FALSE, frag, categories[self_round])

\* Clue._set_category(id_str): the round of the coordinates wins over
\* self.round_; the category is cats[column-1] (Python indexing), or cats[0]
\* for clue_FJ
SetCategory(self_round, frag, categories) ==
    IF Mismatch(frag.idrnd, self_round)
    THEN CategoryIn(RoundOfCode(frag.idrnd), TRUE, frag,
                    categories[RoundOfCode(frag.idrnd)])
    ELSE CategoryIn(self_round, FALSE, frag, categories[self_round])

\* one (class, player) match of wasCorrect_regex as a response event
EventOf(row) == <<row[2], row[1] = "right">>

\* one parenthesised quotation, given as its ':'-separated parts:
\* (speaker, the rest joined again)
QuoteOf(parts) == <<Head(parts), Tail(parts)>>

NoResponses(e) ==
    [err |-> e, target |-> "", annotation |-> [comment |-> "", cells |-> <<>>],
     set_correct |-> FALSE, correct |-> <<>>,
     set_responses |-> FALSE, responses |-> <<>>]

\* Clue._set_responses on the onmouseover payload found (None: no div has
\* one). The payload is given as what the regular expressions find in it:
\* target (target_regex), comment and cells (response_regex: the commentary
\* and the td cells inside it), rows (wasCorrect_regex), quotes.
ResponsesIn(round2, annotation) ==
    IF IsNone(annotation) THEN NoResponses("ValueError")
    ELSE IF IsNone(The(annotation).target) THEN NoResponses("ValueError")
    ELSE IF round2 = "final_jeopardy_round"
    THEN [err |-> "none", target |-> The(The(annotation).target),
          annotation |-> [comment |-> The(annotation).comment,
                          cells |-> The(annotation).cells],
          set_correct |-> FALSE, correct |-> <<>>,
          set_responses |-> FALSE, responses |-> <<>>]
    \* the diagnostic of lines 465-473 reads self.col, which no Clue has
    ELSE IF The(annotation).rows = <<>> THEN NoResponses("AttributeError")
    ELSE [err |-> "none", target |-> The(The(annotation).target),
          annotation |-> [comment |-> The(annotation).comment,
                          cells |-> The(annotation).cells],
          set_correct |-> TRUE,
          correct |-> [k \in 1..Len(The(annotation).rows) |->
                          EventOf(The(annotation).rows[k])],
          set_responses |-> TRUE,
          responses |-> [k \in 1..Len(The(annotation).quotes) |->
                            QuoteOf(The(annotation).quotes[k])]]

\* Clue._set_responses: the payload is that of the fragment, or of the
\* final-round container above it for a final-round clue
SetResponses(round2, frag, d) ==
    ResponsesIn(round2,
                IF round2 = "final_jeopardy_round"
                   /\ frag.anc = "final_jeopardy_round"
                THEN d.final_annot ELSE frag.annot)

\* the value of a cell text that int() has read
ValueOf(n, dd) ==
    [err |-> n.err, set |-> n.err = "none", daily_double |-> dd,
     value |-> n.val]

\* a variant of SetValue that leaves the commas in the daily double text
SetValueKeepsCommas(round2, frag) ==
    IF round2 = "final_jeopardy_round"
    THEN [err |-> "none", set |-> FALSE, daily_double |-> FALSE, value |-> 0]
    ELSE IF IsNone(frag.value_cell)
    THEN IF IsNone(frag.dd_cell)
         THEN [err |-> "ValueError", set |-> FALSE,
               daily_double |-> FALSE, value |-> 0]
         ELSE ValueOf(PyInt(Drop(The(frag.dd_cell), 5)), TRUE)
    ELSE ValueOf(PyInt(StrStrip(StrStrip(The(frag.value_cell), {" "}), {"$"})),
                 FALSE)

\* Clue._set_value: clue_value, else clue_value_daily_double without its
\* five-character prefix 'DD: $' and without commas
SetValue(round2, frag) ==
    IF round2 = "final_jeopardy_round"
    THEN [err |-> "none", set |-> FALSE, daily_double |-> FALSE, value |-> 0]
    ELSE IF IsNone(frag.value_cell)
    THEN IF IsNone(frag.dd_cell)
         THEN [err |-> "ValueError", set |-> FALSE,
               daily_double |-> FALSE, value |-> 0]
         ELSE ValueOf(PyInt(Remove(Drop(The(frag.dd_cell), 5), ",")), TRUE)
    ELSE ValueOf(PyInt(StrStrip(StrStrip(The(frag.value_cell), {" "}), {"$"})),
                 FALSE)

\* the order number int() has read
OrderOf(n) == [err |-> n.err, order_num |-> Some(n.val)]

\* a variant of SetOrder that numbers a cell without order number 0
SetOrderZero(frag) ==
    IF IsNone(frag.order_cell) THEN [err |-> "none", order_num |-> Some(0)]
    ELSE OrderOf(PyInt(The(frag.order_cell)))

\* lines 322-331: int(text of the clue_order_number cell), None without one
SetOrder(frag) ==
    IF IsNone(frag.order_cell) THEN [err |-> "none", order_num |-> None]
    ELSE OrderOf(PyInt(The(frag.order_cell)))

NoClue == [kind |-> "none", attrs |-> {}, warned |-> FALSE,
           round_ |-> "", text |-> "",
           category |-> "", row |-> None, column |-> None, target |-> "",
           annotation |-> [comment |-> "", cells |-> <<>>],
           order_num |-> None, daily_double |-> FALSE,
           value |-> 0, correct |-> <<>>, responses |-> <<>>,
           wagers |-> <<>>, contestants |-> <<>>]

BaseAttrs == {"round_", "text", "category", "row", "column", "target",
              "annotation"}

\* the Clue whose attributes the calls of Clue.__init__ have set; attrs
\* names the attributes that have been assigned, warned tells whether the
\* warning of lines 422-423 was printed. nonfinal: the round_ argument is
\* not the final round (line 320)
ClueOf(frag, nonfinal, cat, resp, val, ord) ==
    IF cat.err # "none" THEN [err |-> cat.err, clue |-> NoClue]
    ELSE IF resp.err # "none" THEN [err |-> resp.err, clue |-> NoClue]
    ELSE IF nonfinal /\ val.err # "none" THEN [err |-> val.err, clue |-> NoClue]
    ELSE IF nonfinal /\ ord.err # "none" THEN [err |-> ord.err, clue |-> NoClue]
    ELSE [err |-> "none",
          clue |->
            [kind |-> "Clue", warned |-> cat.warned,
             attrs |-> BaseAttrs
                 \cup (IF resp.set_correct THEN {"correct"} ELSE {})
                 \cup (IF resp.set_responses THEN {"responses"} ELSE {})
                 \cup (IF nonfinal /\ val.set
                       THEN {"daily_double", "value"} ELSE {})
                 \cup (IF nonfinal THEN {"order_num"} ELSE {}),
             round_ |-> cat.round_, text |-> frag.text,
             category |-> cat.category, row |-> cat.row,
             column |-> cat.column, target |-> resp.target,
             annotation |-> resp.annotation,
             order_num |-> IF nonfinal THEN ord.order_num ELSE None,
             daily_double |-> IF nonfinal THEN val.daily_double ELSE FALSE,
             value |-> IF nonfinal THEN val.value ELSE 0,
             correct |-> resp.correct, responses |-> resp.responses,
             wagers |-> <<>>, contestants |-> <<>>]]

\* Clue.__init__ after _set_category has returned cat
NewClueIn(frag, round_, d, cat) ==
    ClueOf(frag, round_ # "final_jeopardy_round", cat,
           SetResponses(cat.round_, frag, d), SetValue(cat.round_, frag),
           SetOrder(frag))

\* Clue.__init__(bs4_tag, game, round_): _set_text (with _set_category),
\* _set_responses, and for round_ other than the final round _set_value and
\* the order number. The result is the exception raised or the Clue.
NewClue(frag, round_, categories, d) ==
    NewClueIn(frag, round_, d, SetCategory(round_, frag, categories))

\* lines 591-620 on the groups of three cells: the four lists
FinalLists(n, conts, resps, wagers, cls) ==
    IF \E i \in 1..n : cls[i] \notin {"wrong", "right"}
    THEN [err |-> "ValueError", correct |-> <<>>,
          responses |-> <<>>, wagers |-> <<>>, contestants |-> <<>>]
    ELSE [err |-> "none",
          correct |-> [i \in 1..n |->
                          <<conts[i], cls[i] = "right", wagers[i]>>],
          responses |-> resps, wagers |-> wagers, contestants |-> conts]

\* a variant of FinalData that takes an incomplete last group for a
\* record, with empty text for the cells it lacks
FinalDataPadded(cells) ==
    FinalLists((Len(cells) + 2) \div 3,
               [i \in 1..((Len(cells) + 2) \div 3) |-> cells[3 * i - 2][2]],
               [i \in 1..((Len(cells) + 2) \div 3) |->
                   IF 3 * i - 1 <= Len(cells) THEN cells[3 * i - 1][2] ELSE ""],
               [i \in 1..((Len(cells) + 2) \div 3) |->
                   IF 3 * i <= Len(cells) THEN cells[3 * i][2] ELSE ""],
               [i \in 1..((Len(cells) + 2) \div 3) |-> cells[3 * i - 2][1]])

\* lines 579-621: the td matches of the annotation in groups of three
\* (outcome and name, response, wager); an incomplete last group is dropped
FinalData(cells) ==
    FinalLists(Len(cells) \div 3,
               [i \in 1..(Len(cells) \div 3) |-> cells[3 * i - 2][2]],
               [i \in 1..(Len(cells) \div 3) |-> cells[3 * i - 1][2]],
               [i \in 1..(Len(cells) \div 3) |-> cells[3 * i][2]],
               [i \in 1..(Len(cells) \div 3) |-> cells[3 * i - 2][1]])

\* the FinalJeopardyClue once Clue.__init__ has made base and the lists are fj
FinalOf(base, fj) ==
    IF fj.err # "none" THEN [err |-> fj.err, clue |-> NoClue]
    ELSE [err |-> "none",
          clue |-> [base.clue EXCEPT
                      !.kind = "Final",
                      !.attrs = @ \cup {"contestants", "responses",
                                        "wagers", "correct"},
                      !.correct = fj.correct,
                      !.responses = fj.responses,
                      !.wagers = fj.wagers,
                      !.contestants = fj.contestants]]

\* lines 578-621 after Clue.__init__ has returned or raised
FinalAfter(base) ==
    IF base.err # "none" THEN base
    ELSE FinalOf(base, FinalData(base.clue.annotation.cells))

\* FinalJeopardyClue.__init__(bs4_tag, game): Clue.__init__ with round_ the
\* final round, then the per-contestant lists
NewFinalClue(frag, categories, d) ==
    FinalAfter(NewClue(frag, "final_jeopardy_round", categories, d))

EmptyClues == [r \in RoundNames |-> <<>>]

\* lines 219-224: the constructor the round of the ancestor selects
MakeClue(frag, categories, d) ==
    IF frag.anc = "final_jeopardy_round" THEN NewFinalClue(frag, categories, d)
    ELSE IF frag.anc \in {"jeopardy_round", "double_jeopardy_round"}
    THEN NewClue(frag, frag.anc, categories, d)
    ELSE [err |-> "ValueError", clue |-> NoClue]

RECURSIVE ParseFrom(_, _, _, _)
\* the loop of Game._parse_clues when the constructor of fragment k has
\* ended as made
ParseNext(k, acc, categories, d, made) ==
    IF made.err # "none" THEN [err |-> made.err, clues |-> acc]
    ELSE ParseFrom(k + 1, [acc EXCEPT ![d.frags[k].anc] = Append(@, made.clue)],
                   categories, d)

\* a variant of ParseFrom without the test of lines 213-214
ParseFromAll(k, acc, categories, d) ==
    IF k > Len(d.frags) THEN [err |-> "none", clues |-> acc]
    ELSE ParseNext(k, acc, categories, d, MakeClue(d.frags[k], categories, d))

\* the loop of Game._parse_clues from fragment k on: an unrevealed fragment
\* (one child) is skipped, the others are built and appended to the list of
\* the round their ancestor names; an exception of a constructor leaves the
\* loop and the method
ParseFrom(k, acc, categories, d) ==
    IF k > Len(d.frags) THEN [err |-> "none", clues |-> acc]
    ELSE IF ~d.frags[k].revealed THEN ParseFrom(k + 1, acc, categories, d)
    ELSE ParseNext(k, acc, categories, d, MakeClue(d.frags[k], categories, d))

\* Game._parse_clues: ValueError without raw clues (lines 205-206), else
\* the loop
ParseClues(categories, d) ==
    IF Len(d.frags) = 0 THEN [err |-> "ValueError", clues |-> EmptyClues]
    ELSE ParseFrom(1, EmptyClues, categories, d)

----------------------------------------------------------------------------
(* Game.__init__(page_source, url) *)

NoGame == [loaded |-> FALSE, attrs |-> {}, id_ |-> "", title |-> "",
           game_number |-> "", weekday |-> "", month |-> "", day |-> "",
           date |-> <<>>, year |-> "", categories |-> EmptyClues,
           clues |-> EmptyClues]

GameAttrs == {"id_", "title", "game_number", "weekday", "month", "day",
              "date", "year", "categories", "clues"}

\* lines 61-76: the title is the text of the game_title div together with
\* the groups title_regex finds in it; date is ' '.join([day, mon, year]),
\* kept as its three words
Fields(d, t) ==
    [NoGame EXCEPT
       !.attrs = GameAttrs \cup {"contestants", "score_data"},
       !.id_ = IdOf(d.url), !.title = d.title.text,
       !.game_number = t[1], !.weekday = t[2], !.month = t[3],
       !.day = t[4], !.date = <<t[4], t[3], t[5]>>, !.year = t[5]]

\* the tokens k..k+5 of the title read "<word>, <word> <digits>, <digits>"
Dated(tokens, k) ==
    /\ k + 5 <= Len(tokens)
    /\ tokens[k].kind = "word"
    /\ tokens[k + 1].kind = "comma"
    /\ tokens[k + 2].kind = "word"
    /\ tokens[k + 3].kind = "num"
    /\ tokens[k + 4].kind = "comma"
    /\ tokens[k + 5].kind = "num"

\* a variant of TitleStarts for a pattern without the '#'
TitleStartsNoHash(tokens) ==
    {p \in 1..Len(tokens) :
        /\ p + 1 <= Len(tokens)
        /\ tokens[p + 1].kind = "num"
        /\ \E k \in (p + 2)..Len(tokens) : Dated(tokens, k)}

\* the positions at which a match of title_regex can begin: a '#' with
\* digits behind it and a date somewhere after them
TitleStarts(tokens) ==
    {p \in 1..Len(tokens) :
        /\ p + 1 <= Len(tokens)
        /\ tokens[p].kind = "hash"
        /\ tokens[p + 1].kind = "num"
        /\ \E k \in (p + 2)..Len(tokens) : Dated(tokens, k)}

\* the groups of the match that begins at p: '.*?' ends at the first date
GroupsAt(tokens, p, k) ==
    <<tokens[p + 1].text, tokens[k].text, tokens[k + 2].text,
      tokens[k + 3].text, tokens[k + 5].text>>

\* re.search(self.title_regex, self.title) with the title given as its
\* tokens (words, digit runs, '#', ',' and anything else): None without a
\* match, else the groups of the leftmost match
TitleGroups(tokens) ==
    IF TitleStarts(tokens) = {} THEN None
    ELSE Some(GroupsAt(tokens,
                       CHOOSE p \in TitleStarts(tokens) :
                           \A x \in TitleStarts(tokens) : p <= x,
                       CHOOSE k \in 1..Len(tokens) :
                           /\ Dated(tokens, k)
                           /\ k >= 2 + (CHOOSE p \in TitleStarts(tokens) :
                                           \A x \in TitleStarts(tokens) : p <= x)
                           /\ \A j \in 1..(k - 1) :
                                 ~(/\ Dated(tokens, j)
                                   /\ j >= 2 + (CHOOSE p \in TitleStarts(tokens) :
                                                   \A x \in TitleStarts(tokens) :
                                                       p <= x))))

\* lines 79-80 once _parse_clues has ended as parsed; t are the groups of
\* the title
BuildParsed(d, t, cats, parsed) ==
    IF parsed.err # "none" THEN [err |-> parsed.err, game |-> NoGame]
    ELSE [err |-> "none",
          game |-> [Fields(d, t) EXCEPT
                      !.categories = cats.categories,
                      !.clues = parsed.clues]]

\* lines 79-80 once _set_categories has ended as cats
BuildCats(d, t, cats) ==
    IF cats.err # "none" THEN [err |-> cats.err, game |-> NoGame]
    ELSE BuildParsed(d, t, cats, ParseClues(cats.categories, d))

\* a variant of BuildTitled without the test of line 78: the categories
\* and clues are always parsed
BuildTitledParsing(d, found) ==
    IF IsNone(found) THEN [err |-> "AttributeError", game |-> NoGame]
    ELSE BuildCats(d, The(found), SetCategories(d))

\* lines 68-89 once re.search has returned found. No match of title_regex:
\* .groups() of None raises AttributeError. Without clue fragments the
\* categories and clues are the three empty lists.
BuildTitled(d, found) ==
    IF IsNone(found) THEN [err |-> "AttributeError", game |-> NoGame]
    ELSE IF Len(d.frags) = 0
    THEN [err |-> "none", game |-> Fields(d, The(found))]
    ELSE BuildCats(d, The(found), SetCategories(d))

\* lines 55-89
BuildGame(d) == BuildTitled(d, TitleGroups(d.title.tokens))

----------------------------------------------------------------------------
(* Clue.correct *)

\* truth_list = [x[1] for x in self._correct_]
TruthList(events) == [k \in 1..Len(events) |-> events[k][2]]

\* a variant of CorrectAny with a third result for an empty list, as the
\* attribute `correct` of scraper.py had
CorrectAnyUnknown(events) ==
    IF events = <<>> THEN "None"
    ELSE IF \E k \in 1..Len(events) : events[k][2] = TRUE
    THEN "True" ELSE "False"

\* Clue.correct(method='any'), lines 363-368: the Python value returned
CorrectAny(events) ==
    IF \E k \in 1..Len(events) : TruthList(events)[k] = TRUE
    THEN "True" ELSE "False"

\* Clue.correct(method='fr'), lines 378-379: self._correct_[0][1], the
\* Python value returned or the exception the subscript raises
CorrectFirst(events) ==
    IF Len(events) = 0 THEN "IndexError"
    ELSE IF events[1][2] THEN "True" ELSE "False"

\* Clue.correct('all') and FinalJeopardyClue.correct('all'): the list itself
CorrectAll(clue) == clue.correct

----------------------------------------------------------------------------
(* Contestant._update_series and Contestant._make_series *)

\* [x[0] for x in resp]
Guessers(resp) == {resp[k][1] : k \in 1..Len(resp)}

\* a variant of FirstOf that takes the last entry of the contestant
LastOf(resp, first_name, n) ==
    resp[CHOOSE k \in 1..Len(resp) :
            /\ resp[k][1] = first_name
            /\ \A j \in (k + 1)..Len(resp) : resp[j][1] # first_name][n]

\* [x[n] for x in resp if x[0] == first_name][0]
FirstOf(resp, first_name, n) ==
    resp[CHOOSE k \in 1..Len(resp) :
            /\ resp[k][1] = first_name
            /\ \A j \in 1..(k - 1) : resp[j][1] # first_name][n]

\* a variant of WagerValue that reads the digits up to the first comma
WagerFirstGroup(text) ==
    LET t == Drop(StrStrip(text, {" "}), 1)
    IN  IF \E k \in 1..Len(t) : t[k] = ","
        THEN PyInt(SubSeq(t, 1, (CHOOSE k \in 1..Len(t) :
                                    /\ t[k] = ","
                                    /\ \A j \in 1..(k - 1) : t[j] # ",") - 1))
        ELSE PyInt(t)

\* int(val.strip()[1:].replace(',','')) of line 689
WagerValue(text) == PyInt(Remove(Drop(StrStrip(text, {" "}), 1), ","))

\* val = clue.value of line 691
ClueValue(clue) ==
    IF "value" \in clue.attrs THEN [err |-> "none", val |-> clue.value]
    ELSE [err |-> "AttributeError", val |-> 0]

\* lines 692-698 with truth value tv and amount v: the list after the
\* assignment, or the way the call ends otherwise ("exit": the handler of
\* lines 696-698 ends the process)
WriteSlot(buf, i, tv, v) ==
    IF v.err # "none" THEN [end |-> v.err, buf |-> buf]
    ELSE IF ~InRange(i, Len(buf)) THEN [end |-> "exit", buf |-> buf]
    ELSE [end |-> "ok",
          buf |-> [buf EXCEPT ![Pos(i, Len(buf))] =
                                  IF tv = FALSE THEN -1 * v.val ELSE v.val]]

\* a variant of UpdateSeries without the test of line 685: the first event
\* of the clue is booked to every contestant
UpdateSeriesUnguarded(first_name, buf, clue, resp, i, fj) ==
    IF resp = <<>> THEN [end |-> "ok", buf |-> buf]
    ELSE WriteSlot(buf, i, resp[1][2],
                   IF fj THEN WagerValue(resp[1][3]) ELSE ClueValue(clue))

\* Contestant._update_series(clue, resp, i, fj) on the list buf
UpdateSeries(first_name, buf, clue, resp, i, fj) ==
    IF first_name \notin Guessers(resp) THEN [end |-> "ok", buf |-> buf]
    ELSE WriteSlot(buf, i, FirstOf(resp, first_name, 2),
                   IF fj THEN WagerValue(FirstOf(resp, first_name, 3))
                   ELSE ClueValue(clue))

\* a variant of MakeSeries that adds the old slot i-1, not the new one
MakeSeriesFromDeltas(buf) ==
    [i \in 1..Len(buf) |-> IF i = 1 THEN buf[1] ELSE buf[i - 1] + buf[i]]

\* the loop of Contestant._make_series: slot 0 stays, slot i becomes the
\* new slot i-1 plus the old slot i
MakeSeries(buf) ==
    LET s[i \in 1..Len(buf)] == IF i = 1 THEN buf[1] ELSE s[i - 1] + buf[i]
    IN  [i \in 1..Len(buf) |-> s[i]]

RECURSIVE UpdateAll(_, _, _, _, _, _, _, _)
\* a variant of UpdateNext that in the final round puts a new Contestant,
\* without link and description, in the place of the one updated
UpdateNextRemaking(c, h, cs, clue, resp, i, fj, keep, u) ==
    IF u.end # "ok" THEN [end |-> u.end, heap |-> h, contestants |-> cs]
    ELSE IF fj
    THEN UpdateAll(c + 1,
                   Append([h EXCEPT ![cs[c].score_series] = u.buf],
                          Prefix(u.buf, keep)),
                   [cs EXCEPT ![c] = Contestant(cs[c].name, "", "", Len(h) + 1)],
                   clue, resp, i, fj, keep)
    ELSE UpdateAll(c + 1, [h EXCEPT ![cs[c].score_series] = u.buf], cs,
                   clue, resp, i, fj, keep)

\* the loop over the contestants once _update_series of contestant c has
\* ended as u; in the final round the slice score_series[:keep] is a new list
UpdateNext(c, h, cs, clue, resp, i, fj, keep, u) ==
    IF u.end # "ok" THEN [end |-> u.end, heap |-> h, contestants |-> cs]
    ELSE IF fj
    THEN UpdateAll(c + 1,
                   Append([h EXCEPT ![cs[c].score_series] = u.buf],
                          Prefix(u.buf, keep)),
                   [cs EXCEPT ![c].score_series = Len(h) + 1],
                   clue, resp, i, fj, keep)
    ELSE UpdateAll(c + 1, [h EXCEPT ![cs[c].score_series] = u.buf], cs,
                   clue, resp, i, fj, keep)

\* for contestant in self.contestants: contestant._update_series(...), and
\* in the final round the slice of line 128. c is the next contestant; h and
\* cs are the heap and the contestants so far
UpdateAll(c, h, cs, clue, resp, i, fj, keep) ==
    IF c > Len(cs) THEN [end |-> "ok", heap |-> h, contestants |-> cs]
    ELSE UpdateNext(c, h, cs, clue, resp, i, fj, keep,
                    UpdateSeries(cs[c].first_name, h[cs[c].score_series],
                                 clue, resp, i, fj))

----------------------------------------------------------------------------
(* The state machine *)

\* who calls score_graph: one caller in the sequential specifications
Callers == {"main", "other"}

Idle == [pc |-> "idle", k |-> 0, max_i |-> 0, offset |-> 0,
         direct |-> FALSE, out |-> None]

NoProbe == [events |-> <<>>, asked |-> FALSE, any |-> "",
            asked_fr |-> FALSE, fr |-> ""]

\* the state before Game(page_source, url) is evaluated on document d
Start(d) ==
    /\ doc = d
    /\ pc = "new"
    /\ err = "none"
    /\ game = NoGame
    /\ contestants = <<>>
    /\ heap = <<>>
    /\ score_data = None
    /\ frame = [t \in Callers |-> Idle]
    /\ ret = [t \in Callers |-> None]
    /\ calls = 0
    /\ builds = 0
    /\ first_ret = None
    /\ build_out = <<>>
    /\ restored = None
    /\ probe = NoProbe

\* the Game object once __init__ has ended as b
Constructed(b) ==
    /\ err' = b.err
    /\ pc' = IF b.err = "none" THEN "built" ELSE "failed"
    /\ game' = b.game
    /\ contestants' = IF b.err = "none" THEN SetContestants(doc) ELSE <<>>
    /\ heap' = IF b.err = "none" THEN FreshHeap(doc) ELSE <<>>

\* Game.__init__(page_source, url), lines 55-89
Construct ==
    /\ pc = "new"
    /\ Constructed(BuildGame(doc))
    /\ UNCHANGED <<doc, score_data, frame, ret, calls, builds, first_ret,
                   build_out, restored, probe>>

\* the values of the lists a dict of _make_score_data holds, in heap h
SeriesOf(dict, h) == [n \in DOMAIN dict |-> h[dict[n]]]

\* what a caller gets back: the dict (of list objects) and, for the record,
\* the values the lists held at that moment
Returned(dict, h) == Some([dict |-> dict, vals |-> SeriesOf(dict, h)])

\* a variant of ScoreGraph without the test of line 92: every call enters
\* _make_score_data
ScoreGraphNoCache(t) ==
    /\ pc = "built"
    /\ frame[t].pc = "idle"
    /\ calls < MaxCalls
    /\ calls' = calls + 1
    /\ frame' = [frame EXCEPT ![t] = [Idle EXCEPT !.pc = "J", !.k = 1]]
    /\ builds' = builds + 1
    /\ UNCHANGED <<doc, pc, err, game, contestants, heap, score_data,
                   build_out, restored, probe, ret, first_ret>>

\* Game.score_graph(plt=None), lines 92-95, up to the call of
\* _make_score_data (entered with max_i = 0) or, with score_data set, the
\* whole call
ScoreGraph(t) ==
    /\ pc = "built"
    /\ frame[t].pc = "idle"
    /\ calls < MaxCalls
    /\ calls' = calls + 1
    /\ IF IsNone(score_data)
       THEN /\ frame' = [frame EXCEPT ![t] = [Idle EXCEPT !.pc = "J", !.k = 1]]
            /\ builds' = builds + 1
            /\ UNCHANGED <<ret, first_ret>>
       ELSE /\ ret' = [ret EXCEPT ![t] = Returned(The(score_data), heap)]
            /\ first_ret' = IF IsNone(first_ret)
                            THEN Some(SeriesOf(The(score_data), heap))
                            ELSE first_ret
            /\ UNCHANGED <<frame, builds>>
    /\ UNCHANGED <<doc, pc, err, game, contestants, heap, score_data,
                   build_out, restored, probe>>

\* how a step of _make_score_data that ended with `end` leaves the caller:
\* an exception unwinds the call, exit() ends the process
Unwind(t, end) ==
    /\ frame' = [frame EXCEPT ![t] = Idle]
    /\ pc' = IF end = "exit" THEN "exited" ELSE pc
    /\ err' = end

\* the end of one pass of a loop of lines 104-128 in which the calls of
\* _update_series ended as u: i is the slot written, max_i follows it in the
\* first two rounds
Updated(t, u, i, track) ==
    /\ heap' = u.heap
    /\ contestants' = u.contestants
    /\ IF u.end # "ok" THEN Unwind(t, u.end)
       ELSE /\ frame' = [frame EXCEPT
                           ![t].k = @ + 1,
                           ![t].max_i = IF track /\ i > @ THEN i ELSE @]
            /\ UNCHANGED <<pc, err>>

\* a variant of SlotOf that forgets the offset of line 117
SlotIgnoringOffset(clue, base) == The(clue.order_num)

\* the slot of clue in a loop of the first two rounds: base is 0 in the
\* first round and offset in the second
SlotOf(clue, base) == The(clue.order_num) + base

\* one pass of a loop of lines 104-122 over self.clues[round_]: a clue
\* without order number is skipped
StepRound(t, here, round_, next, base) ==
    /\ pc = "built"
    /\ frame[t].pc = here
    /\ IF frame[t].k > Len(game.clues[round_])
       THEN /\ frame' = [frame EXCEPT
                           ![t].pc = next, ![t].k = 1,
                           ![t].offset = IF round_ = "jeopardy_round"
                                         THEN frame[t].max_i ELSE @]
            /\ UNCHANGED <<pc, err, heap, contestants>>
       ELSE IF {"order_num", "correct"}
               \ game.clues[round_][frame[t].k].attrs # {}
       THEN Unwind(t, "AttributeError") /\ UNCHANGED <<heap, contestants>>
       ELSE IF IsNone(game.clues[round_][frame[t].k].order_num)
       THEN /\ frame' = [frame EXCEPT ![t].k = @ + 1]
            /\ UNCHANGED <<pc, err, heap, contestants>>
       ELSE Updated(t,
                    UpdateAll(1, heap, contestants,
                              game.clues[round_][frame[t].k],
                              CorrectAll(game.clues[round_][frame[t].k]),
                              SlotOf(game.clues[round_][frame[t].k], base),
                              FALSE, 0),
                    SlotOf(game.clues[round_][frame[t].k], base), TRUE)
    /\ UNCHANGED <<doc, game, score_data, ret, calls, builds, first_ret,
                   build_out, restored, probe>>

\* lines 104-113
StepJ(t) == StepRound(t, "J", "jeopardy_round", "DJ", 0)

\* lines 114-122
StepDJ(t) ==
    StepRound(t, "DJ", "double_jeopardy_round", "FJ", frame[t].offset)

\* one pass of the loop of lines 123-128
StepFJ(t) ==
    /\ pc = "built"
    /\ frame[t].pc = "FJ"
    /\ IF frame[t].k > Len(game.clues["final_jeopardy_round"])
       THEN /\ frame' = [frame EXCEPT ![t].pc = "series"]
            /\ UNCHANGED <<pc, err, heap, contestants>>
       ELSE IF "correct"
               \notin game.clues["final_jeopardy_round"][frame[t].k].attrs
       THEN Unwind(t, "AttributeError") /\ UNCHANGED <<heap, contestants>>
       ELSE Updated(t,
                    UpdateAll(1, heap, contestants,
                              game.clues["final_jeopardy_round"][frame[t].k],
                              CorrectAll(game.clues["final_jeopardy_round"]
                                                   [frame[t].k]),
                              frame[t].max_i + 1, TRUE, frame[t].max_i + 2),
                    frame[t].max_i + 1, FALSE)
    /\ UNCHANGED <<doc, game, score_data, ret, calls, builds, first_ret,
                   build_out, restored, probe>>

\* ret_dict of lines 131-134: a later contestant of the same name replaces
\* an earlier one
RetDict(cs) ==
    [n \in {cs[c].name : c \in 1..Len(cs)} |->
        cs[CHOOSE c \in 1..Len(cs) :
              /\ cs[c].name = n
              /\ \A j \in (c + 1)..Len(cs) : cs[j].name # n].score_series]

\* lines 129-130: _make_series on the list of every contestant
AllSeries(h, cs) ==
    [b \in 1..Len(h) |->
        IF \E c \in 1..Len(cs) : cs[c].score_series = b
        THEN MakeSeries(h[b]) ELSE h[b]]

\* the end of _make_score_data with the lists h2 and the dict out
Built(t, h2, out) ==
    /\ heap' = h2
    /\ frame' = [frame EXCEPT ![t].pc = "store", ![t].out = Some(out)]
    /\ build_out' = Append(build_out, SeriesOf(out, h2))

\* lines 129-135: every contestant's _make_series, then the dict
StepSeries(t) ==
    /\ pc = "built"
    /\ frame[t].pc = "series"
    /\ Built(t, AllSeries(heap, contestants), RetDict(contestants))
    /\ UNCHANGED <<doc, pc, err, game, contestants, score_data, ret,
                   calls, builds, first_ret, restored, probe>>

\* lines 93-95 after _make_score_data has returned: the assignment to
\* self.score_data and the return; a direct call of _make_score_data hands
\* the dict to its caller instead
Store(t) ==
    /\ pc = "built"
    /\ frame[t].pc = "store"
    /\ frame' = [frame EXCEPT ![t] = Idle]
    /\ ret' = [ret EXCEPT ![t] = Returned(The(frame[t].out), heap)]
    /\ IF frame[t].direct
       THEN UNCHANGED <<score_data, first_ret>>
       ELSE /\ score_data' = frame[t].out
            /\ first_ret' = IF IsNone(first_ret)
                            THEN Some(SeriesOf(The(frame[t].out), heap))
                            ELSE first_ret
    /\ UNCHANGED <<doc, pc, err, game, contestants, heap, calls, builds,
                   build_out, restored, probe>>

\* a second, direct call of Game._make_score_data() on a Game whose timeline
\* has been computed
Rebuild(t) ==
    /\ pc = "built"
    /\ frame[t].pc = "idle"
    /\ ~IsNone(score_data)
    /\ builds < 1 + MaxRebuilds
    /\ frame' = [frame EXCEPT ![t] = [Idle EXCEPT !.pc = "J", !.k = 1,
                                                  !.direct = TRUE]]
    /\ builds' = builds + 1
    /\ UNCHANGED <<doc, pc, err, game, contestants, heap, score_data, ret,
                   calls, first_ret, build_out, restored, probe>>

----------------------------------------------------------------------------
(* Game.__dict__ and Game(load=True, **kwargs) *)

\* the keys of Clue.__dict__(), lines 523-548, by self.round_
ClueKeys(round_) ==
    IF round_ = "final_jeopardy_round"
    THEN {"round_", "text", "category", "row", "column", "target",
          "annotation"}
    ELSE {"round_", "order_num", "daily_double", "value", "text", "row",
          "column", "category", "target", "annotation", "correct",
          "responses"}

\* the keys of Clue.__dict__() and of FinalJeopardyClue.__dict__()
DictKeys(clue) ==
    ClueKeys(clue.round_)
    \cup (IF clue.kind = "Final"
          THEN {"correct", "wagers", "responses", "contestants"} ELSE {})

\* Clue.__dict__() and FinalJeopardyClue.__dict__(): a dict is its set of
\* keys with the values (a record of the clue's fields); reading an
\* attribute that was never assigned raises AttributeError
ClueDict(clue) ==
    IF \E key \in DictKeys(clue) : key \notin clue.attrs
    THEN [err |-> "AttributeError", keys |-> {}, vals |-> NoClue]
    ELSE [err |-> "none", keys |-> DictKeys(clue), vals |-> clue]

\* for clue in self.clues[round_] for the rounds in turn: clue.__dict__()
ClueDicts(all) == [k \in 1..Len(all) |-> ClueDict(all[k])]

\* the dictionary of lines 245-257 around the clues ds
GameDictOf(g, ds) ==
    IF \E k \in 1..Len(ds) : ds[k].err # "none"
    THEN [err |-> "AttributeError", keys |-> {}, vals |-> NoGame,
          clues |-> <<>>]
    ELSE [err |-> "none", keys |-> GameAttrs, vals |-> g, clues |-> ds]

\* Game.__dict__(), lines 239-257: the clues of the three rounds in one list
GameDict(g) ==
    GameDictOf(g, ClueDicts(g.clues["jeopardy_round"]
                            \o g.clues["double_jeopardy_round"]
                            \o g.clues["final_jeopardy_round"]))

\* the keys Clue._load reads, in the order of lines 391-403
LoadOrder(round_) ==
    <<"round_", "text", "category", "row", "column", "target", "annotation">>
    \o (IF round_ # "final_jeopardy_round"
        THEN <<"order_num", "daily_double", "value", "correct", "responses">>
        ELSE <<>>)

\* Clue._load(game, **kwargs): KeyError at the first key kwargs lacks
ClueLoad(kwargs_keys, vals) ==
    IF "round_" \notin kwargs_keys THEN [err |-> "KeyError", clue |-> NoClue]
    ELSE IF \E k \in 1..Len(LoadOrder(vals.round_)) :
               LoadOrder(vals.round_)[k] \notin kwargs_keys
    THEN [err |-> "KeyError", clue |-> NoClue]
    ELSE [err |-> "none",
          clue |-> [vals EXCEPT
                      !.kind = "Clue", !.warned = FALSE,
                      !.attrs = {LoadOrder(vals.round_)[k] :
                                   k \in 1..Len(LoadOrder(vals.round_))},
                      !.wagers = <<>>, !.contestants = <<>>]]

\* Clue(game=self, load=True, **clue), lines 302-313: the keys of the dict
\* that name a parameter of __init__ are bound to it and do not reach kwargs
LoadClue(d) ==
    ClueLoad(d.keys \ {"bs4_tag", "game", "round_", "load"}, d.vals)

\* FinalJeopardyClue._load(self, game, **kwargs) takes one positional
\* argument after self
FinalLoadArity == 1

\* FinalJeopardyClue(game=self, load=True, **clue), lines 572-576:
\* self._load(game, kwargs) hands _load two positional arguments, which
\* raises TypeError
LoadFinalClue(d) ==
    IF Len(<<"game", "kwargs">>) > FinalLoadArity
    THEN [err |-> "TypeError", clue |-> NoClue]
    ELSE ClueLoad(d.keys \ {"bs4_tag", "game", "load"}, d.vals)

RECURSIVE LoadFrom(_, _, _)
\* the loop of lines 158-167 once the constructor for entry k has ended as
\* made
LoadNext(k, acc, ds, made) ==
    IF made.err # "none" THEN [err |-> made.err, clues |-> acc]
    ELSE LoadFrom(k + 1,
                  [acc EXCEPT ![ds[k].vals.round_] = Append(@, made.clue)], ds)

\* the loop of lines 158-167 from entry k of kwargs['clues'] on
LoadFrom(k, acc, ds) ==
    IF k > Len(ds) THEN [err |-> "none", clues |-> acc]
    ELSE LoadNext(k, acc, ds,
                  IF ds[k].vals.round_ = "final_jeopardy_round"
                  THEN LoadFinalClue(ds[k]) ELSE LoadClue(ds[k]))

\* lines 144-167 once the loop over the clues has ended as loaded
Loaded(gd, loaded) ==
    IF loaded.err # "none" THEN [err |-> loaded.err, game |-> NoGame]
    ELSE [err |-> "none",
          game |-> [gd.vals EXCEPT !.loaded = TRUE, !.attrs = GameAttrs,
                                   !.clues = loaded.clues]]

\* Game(load=True, **kwargs), lines 55-58 and 137-167: contestants and
\* score_data are not among the attributes _load sets. An exception of
\* __dict__ is passed on.
LoadGame(gd) ==
    IF gd.err # "none" THEN [err |-> gd.err, game |-> NoGame]
    ELSE Loaded(gd, LoadFrom(1, EmptyClues, gd.clues))

\* Game(load=True, **g.__dict__())
RoundTrip(g) == LoadGame(GameDict(g))

\* the restored Game as the program holds it: rt is the outcome of the
\* constructor, graph what score_graph() returned on it (None: not called)
Reloaded(rt) == [err |-> rt.err, game |-> rt.game, graph |-> None]

\* g2 = Game(load=True, **g.__dict__()) on the built Game
Restore ==
    /\ pc = "built"
    /\ IsNone(restored)
    /\ \A t \in Callers : frame[t].pc = "idle"
    /\ restored' = Some(Reloaded(RoundTrip(game)))
    /\ UNCHANGED <<doc, pc, err, game, contestants, heap, score_data, frame,
                   ret, calls, builds, first_ret, build_out, probe>>

\* score_graph() on the restored Game, lines 91-100. The load path of
\* Game.__init__ returns at line 58 and _load assigns no score_data, so the
\* read of self.score_data at line 92 raises AttributeError.
ScoreRestored ==
    /\ ~IsNone(restored)
    /\ The(restored).err = "none"
    /\ IsNone(The(restored).graph)
    /\ "score_data" \notin The(restored).game.attrs
    /\ restored' = Some([The(restored) EXCEPT
                            !.graph = Some([err |-> "AttributeError",
                                            vals |-> <<>>])])
    /\ UNCHANGED <<doc, pc, err, game, contestants, heap, score_data, frame,
                   ret, calls, builds, first_ret, build_out, probe>>

\* clue.correct() on a Clue whose response events are probe.events
AskCorrect ==
    /\ pc = "probe"
    /\ ~probe.asked
    /\ probe' = [probe EXCEPT !.asked = TRUE, !.any = CorrectAny(probe.events)]
    /\ UNCHANGED <<doc, pc, err, game, contestants, heap, score_data, frame,
                   ret, calls, builds, first_ret, build_out, restored>>

\* clue.correct('fr') on a Clue whose response events are probe.events
AskFirst ==
    /\ pc = "probe"
    /\ ~probe.asked_fr
    /\ probe' = [probe EXCEPT !.asked_fr = TRUE,
                              !.fr = CorrectFirst(probe.events)]
    /\ UNCHANGED <<doc, pc, err, game, contestants, heap, score_data, frame,
                   ret, calls, builds, first_ret, build_out, restored>>

----------------------------------------------------------------------------
(* The documents *)

\* str(n) for 0 <= n <= 99
IntChars(n) == IF n < 10 THEN <<Digits[n + 1]>>
               ELSE <<Digits[(n \div 10) + 1], Digits[(n % 10) + 1]>>

\* the three <p class="contestants">
Roster ==
    << [name |-> <<"Ann", "Lee">>, link |-> "showplayer.php?player_id=1",
        flavor |-> "Ann Lee, a teacher"],
       [name |-> <<"Bob", "Ray">>, link |-> "showplayer.php?player_id=2",
        flavor |-> "Bob Ray, a nurse"],
       [name |-> <<"Cal">>, link |-> "showplayer.php?player_id=3",
        flavor |-> "Cal, a pilot"] >>

\* the category_name cells of the three round containers
Containers ==
    [r \in RoundNames |->
        CASE r = "jeopardy_round" -> Some(<<"HISTORY", "Science">>)
          [] r = "double_jeopardy_round" -> Some(<<"OPERA", "Rivers">>)
          [] r = "final_jeopardy_round" -> Some(<<"POETS">>)]

\* a token of a title
Token(kind, text) == [kind |-> kind, text |-> text]

GoodTitle ==
    [text |-> "Show #4596 - Monday, September 6, 2004",
     tokens |-> <<Token("word", "Show"), Token("hash", "#"),
                  Token("num", "4596"), Token("other", "-"),
                  Token("word", "Monday"), Token("comma", ","),
                  Token("word", "September"), Token("num", "6"),
                  Token("comma", ","), Token("num", "2004")>>]

\* what a revealed clue cell can carry: a value cell or a daily-double cell,
\* and the outcome rows and quotations of its annotation
Templates == {"plain", "dd", "again"}

ValueCell(tpl) ==
    CASE tpl = "plain" -> Some(<<"$", "2", "0", "0">>)
      [] tpl = "dd" -> None
      [] tpl = "again" -> Some(<<"$", "6", "0", "0">>)

DDCell(tpl) ==
    IF tpl = "dd"
    THEN Some(<<"D", "D", ":", " ", "$", "1", ",", "0", "0", "0">>)
    ELSE None

Rows(tpl) ==
    CASE tpl = "plain" -> << <<"right", "Ann">> >>
      [] tpl = "dd" -> << <<"wrong", "Bob">> >>
      [] tpl = "again" -> << <<"wrong", "Bob">>, <<"wrong", "Ann">>,
                             <<"right", "Bob">> >>

Quotes(tpl) ==
    IF tpl = "again" THEN << <<"Alex", " Ann, no", " Bob?">> >> ELSE <<>>

\* the k-th clue cell of a round: board column and row from k, cells and
\* annotation from tpl, the order number cell from order (0: no such cell)
Frag(round_, code, k, tpl, order) ==
    [revealed |-> TRUE, anc |-> round_, idrnd |-> code,
     col |-> ((k - 1) % 2) + 1, row |-> ((k - 1) \div 2) + 1,
     text |-> "clue text",
     value_cell |-> ValueCell(tpl), dd_cell |-> DDCell(tpl),
     order_cell |-> IF order = 0 THEN None ELSE Some(IntChars(order)),
     annot |-> Some([target |-> Some("target"), comment |-> "comment",
                     rows |-> Rows(tpl), cells |-> <<>>,
                     quotes |-> Quotes(tpl)])]

\* the final clue cell; its annotation is that of the round's container
FinalFrag ==
    [revealed |-> TRUE, anc |-> "final_jeopardy_round", idrnd |-> "FJ",
     col |-> 0, row |-> 0, text |-> "final clue text",
     value_cell |-> None, dd_cell |-> None, order_cell |-> None,
     annot |-> None]

\* the rows of a final round: per contestant the td cells (class, text) of
\* the outcome with the name, of the response and of the wager
FinalChoices == {"none", "both", "one"}

FinalCells(f) ==
    CASE f = "both" ->
           << <<"right", "Ann">>, <<"", "Who is Keats?">>,
              <<"", <<"$", "5", "0", "0">> >>,
              <<"wrong", "Bob">>, <<"", "Who is Byron?">>,
              <<"", <<"$", "1", ",", "0", "0", "0">> >> >>
      [] f = "one" ->
           << <<"wrong", "Ann">>, <<"", "Who is Blake?">>,
              <<"", <<" ", "$", "2", ",", "5", "0", "0">> >> >>
      [] OTHER -> <<>>

FinalAnnot(f) ==
    IF f = "none" THEN None
    ELSE Some([target |-> Some("Keats"), comment |-> "final comment",
               rows |-> <<>>, cells |-> FinalCells(f), quotes |-> <<>>])

\* a document: the url, the title, the roster, the containers of the rounds
\* and the clue cells in document order
Document(jfrags, djfrags, f) ==
    [url |-> <<"http://www.j-archive.com/showgame.php?game_id", "173">>,
     title |-> GoodTitle, roster |-> Roster, containers |-> Containers,
     final_annot |-> FinalAnnot(f),
     frags |-> jfrags \o djfrags \o (IF f = "none" THEN <<>> ELSE <<FinalFrag>>)]

\* the cells of one round: a template and an order number per cell, no
\* order number twice in the round
RoundCells(n) ==
    {c \in [1..n -> Templates \X (0..MaxOrder)] :
        \A a, b \in 1..n : (a # b /\ c[a][2] # 0) => c[a][2] # c[b][2]}

FragsOf(round_, code, cells) ==
    [k \in 1..Len(cells) |-> Frag(round_, code, k, cells[k][1], cells[k][2])]

\* the well-formed document with these cells in the first two rounds and
\* this final round
ScoreDoc(jcells, djcells, f) ==
    Document(FragsOf("jeopardy_round", "J", jcells),
             FragsOf("double_jeopardy_round", "DJ", djcells), f)

\* how many clue cells the first and the second round can have: at most
\* MaxClues together
RoundSizes ==
    {m \in (0..MaxClues) \X (0..MaxClues) : m[1] + m[2] <= MaxClues}

\* what can be wrong with one clue cell
Defects == {"no_value", "no_target", "no_annotation", "no_rows", "bad_token"}

\* fragment fr with the defect
Spoil(fr, defect) ==
    CASE defect = "no_value" -> [fr EXCEPT !.value_cell = None, !.dd_cell = None]
      [] defect = "no_target" ->
           [fr EXCEPT !.annot = Some([The(@) EXCEPT !.target = None])]
      [] defect = "no_annotation" -> [fr EXCEPT !.annot = None]
      [] defect = "no_rows" ->
           [fr EXCEPT !.annot = Some([The(@) EXCEPT !.rows = <<>>])]
      [] OTHER -> fr

\* the annotation of the final round with the defect
SpoilFinal(annotation, defect) ==
    CASE defect = "no_target" -> Some([The(annotation) EXCEPT !.target = None])
      [] defect = "no_annotation" -> None
      [] defect = "bad_token" ->
           Some([The(annotation) EXCEPT !.cells[4] = <<"", "Bob">>])
      [] OTHER -> annotation

\* a played game: two cells of the first round, one of the second, the final
SoundDoc ==
    Document(FragsOf("jeopardy_round", "J", << <<"plain", 1>>, <<"again", 2>> >>),
             FragsOf("double_jeopardy_round", "DJ", << <<"dd", 1>> >>), "both")

\* SoundDoc with one defect in its p-th clue cell
DefectDocs ==
    {[SoundDoc EXCEPT
        !.frags[x[1]] = IF x[1] < Len(SoundDoc.frags)
                        THEN Spoil(@, x[2]) ELSE @,
        !.final_annot = IF x[1] = Len(SoundDoc.frags)
                        THEN SpoilFinal(@, x[2]) ELSE @] :
        x \in {y \in (1..Len(SoundDoc.frags)) \X Defects :
                 \/ y[1] < Len(SoundDoc.frags) /\ y[2] # "bad_token"
                 \/ y[1] = Len(SoundDoc.frags)
                    /\ y[2] \in {"no_target", "no_annotation", "bad_token"}}}


\* titles title_regex does not match: no '#', no date, a date in another
\* form, an empty game_title div
BadTitles ==
    { [text |-> "Show 4596 - Monday, September 6, 2004",
       tokens |-> <<Token("word", "Show"), Token("num", "4596"),
                    Token("other", "-"), Token("word", "Monday"),
                    Token("comma", ","), Token("word", "September"),
                    Token("num", "6"), Token("comma", ","),
                    Token("num", "2004")>>],
      [text |-> "Show #4596",
       tokens |-> <<Token("word", "Show"), Token("hash", "#"),
                    Token("num", "4596")>>],
      [text |-> "Show #4596 - 2004-09-06",
       tokens |-> <<Token("word", "Show"), Token("hash", "#"),
                    Token("num", "4596"), Token("other", "-"),
                    Token("num", "2004"), Token("other", "-"),
                    Token("num", "09"), Token("other", "-"),
                    Token("num", "06")>>],
      [text |-> "", tokens |-> <<>>] }

\* a title with text before the '#' and between number and date
LongTitle ==
    [text |-> "J! Archive - Show #4596, aired Monday, September 6, 2004",
     tokens |-> <<Token("word", "J"), Token("other", "!"),
                  Token("word", "Archive"), Token("other", "-"),
                  Token("word", "Show"), Token("hash", "#"),
                  Token("num", "4596"), Token("comma", ","),
                  Token("word", "aired"), Token("word", "Monday"),
                  Token("comma", ","), Token("word", "September"),
                  Token("num", "6"), Token("comma", ","),
                  Token("num", "2004")>>]

Titles == {GoodTitle, LongTitle} \cup BadTitles

\* the cells of the rows of a final round with three contestants
ThreeRows ==
    FinalCells("both")
    \o << <<"right", "Cal">>, <<"", "Who is Keats?">>,
          <<"", <<"$", "0">> >> >>

\* the annotation of a final round whose commentary holds the first n cells
\* of ThreeRows
CutAnnot(n) ==
    Some([target |-> Some("Keats"), comment |-> "final comment",
          rows |-> <<>>, cells |-> Prefix(ThreeRows, n), quotes |-> <<>>])

\* clue cells whose container and coordinates name any of the rounds: the
\* k-th cell of such a document
MixedCells(n) ==
    [1..n -> RoundNames \X {"J", "DJ", "FJ"} \X Templates]

MixedDoc(cells) ==
    [Document(<<>>, <<>>, "both") EXCEPT
       !.frags = [k \in 1..Len(cells) |->
                     Frag(cells[k][1], cells[k][2], k, cells[k][3], k)]]

\* document d without the containers of the rounds in gone
WithoutContainers(d, gone) ==
    [d EXCEPT !.containers = [r \in RoundNames |->
                                 IF r \in gone THEN None ELSE @[r]]]

\* document d with the clue cells in hidden unrevealed: such a cell has one
\* child and none of the cells of a clue
Unrevealed(d, hidden) ==
    [d EXCEPT !.frags = [k \in 1..Len(@) |->
                            IF k \in hidden
                            THEN [@[k] EXCEPT !.revealed = FALSE,
                                              !.value_cell = None,
                                              !.dd_cell = None,
                                              !.order_cell = None,
                                              !.annot = None]
                            ELSE @[k]]]

\* a document without clue cells
EmptyDoc == Document(<<>>, <<>>, "none")

\* the order numbers of the documents of SpecOrders: none (0), the first,
\* the last of a regular round, and one beyond it
OrderSamples == {0, 1, MaxReveal, MaxReveal + 5}

\* the order numbers of the n cells of a round, none twice
OrderCells(n) ==
    {o \in [1..n -> OrderSamples] :
        \A a, b \in 1..n : (a # b /\ o[a] # 0) => o[a] # o[b]}

\* the well-formed document whose cells have these order numbers: a plain
\* clue and one answered three times in the first round, a daily double
\* and a plain clue in the second
OrderDoc(jo, djo, f) ==
    ScoreDoc([k \in 1..Len(jo) |-> <<IF k = 1 THEN "plain" ELSE "again", jo[k]>>],
             [k \in 1..Len(djo) |-> <<IF k = 1 THEN "dd" ELSE "plain", djo[k]>>],
             f)

\* fr is a cell of one of the rounds in kept
CellOf(kept, fr) == fr.anc \in kept

\* SoundDoc with the clue cells of the rounds in kept only: a game of which
\* some rounds have no clue on the page
PartDoc(kept) ==
    [SoundDoc EXCEPT
       !.frags = [k \in 1..Cardinality({j \in 1..Len(@) : CellOf(kept, @[j])})
                    |-> @[CHOOSE j \in 1..Len(@) :
                            /\ CellOf(kept, @[j])
                            /\ Cardinality({i \in 1..j : CellOf(kept, @[i])}) = k]],
       !.final_annot = IF "final_jeopardy_round" \in kept THEN @ ELSE None]

----------------------------------------------------------------------------
(* Specifications *)

\* Game(page_source, url) is about to be evaluated on a well-formed
\* document, on the played game or on the played game with a defect
Init ==
    \/ \E n \in RoundSizes :
          \E jcells \in RoundCells(n[1]) :
              \E djcells \in RoundCells(n[2]) :
                  \E f \in FinalChoices : Start(ScoreDoc(jcells, djcells, f))
    \/ \E d \in {SoundDoc} \cup DefectDocs : Start(d)

\* a program that builds a Game from a document and asks for its score
\* timeline any number of times
Next ==
    \/ Construct
    \/ ScoreGraph("main")
    \/ StepJ("main")
    \/ StepDJ("main")
    \/ StepFJ("main")
    \/ StepSeries("main")
    \/ Store("main")

Spec == Init /\ [][Next]_vars

\* a program that builds a Game from a document, saves it and loads it again
NextRestore == Construct \/ Restore

SpecRestore == Init /\ [][NextRestore]_vars

\* a program that builds a Game, may ask for its score timeline, restores
\* the Game from its __dict__() and asks the restored Game for its timeline
NextReload == Next \/ Restore \/ ScoreRestored

SpecReload == Init /\ [][NextReload]_vars

\* Game(page_source, url) is about to be evaluated on a document out of the
\* ordinary: cells whose coordinates name another round than their
\* container, rounds without clue cells and without their container, other
\* titles, a final round with any number of cells, unrevealed cells
InitParse ==
    \/ \E n \in 1..MaxCells : \E cells \in MixedCells(n) : Start(MixedDoc(cells))
    \/ \E kept \in SUBSET RoundNames :
          \E gone \in SUBSET (RoundNames \ kept) :
              Start(WithoutContainers(PartDoc(kept), gone))
    \/ \E t \in Titles :
          \E d \in {EmptyDoc, SoundDoc} \cup DefectDocs :
              Start([d EXCEPT !.title = t])
    \/ \E n \in 0..Len(ThreeRows) :
          Start([SoundDoc EXCEPT !.final_annot = CutAnnot(n)])
    \/ \E hidden \in SUBSET (1..Len(SoundDoc.frags)) :
          Start(Unrevealed(SoundDoc, hidden))

\* a program that builds a Game from a document
NextParse == Construct

SpecParse == InitParse /\ [][NextParse]_vars

\* the same program calling _make_score_data once more itself
NextRebuild == Next \/ Rebuild("main")

SpecRebuild == Init /\ [][NextRebuild]_vars

\* Game(page_source, url) is about to be evaluated on a document with up
\* to two cells per round whose order numbers reach the end of a round
InitOrders ==
    \E nj, ndj \in 0..2 :
        \E jo \in OrderCells(nj) :
            \E djo \in OrderCells(ndj) :
                \E f \in FinalChoices : Start(OrderDoc(jo, djo, f))

SpecOrders == InitOrders /\ [][Next]_vars

\* a program that builds a Game and calls score_graph() on it from two
\* threads; a thread can be preempted between any two passes of the loops
\* of _make_score_data, and between the test of line 92 and the call
StepOf(t) ==
    \/ ScoreGraph(t)
    \/ StepJ(t)
    \/ StepDJ(t)
    \/ StepFJ(t)
    \/ StepSeries(t)
    \/ Store(t)

NextThreads == Construct \/ \E t \in Callers : StepOf(t)

SpecThreads == Init /\ [][NextThreads]_vars

\* the response-event lists of at most MaxEvents events
EventLists ==
    UNION {[1..n -> {"Ann", "Bob"} \X BOOLEAN] : n \in 0..MaxEvents}

\* Clue.correct as a function of the response events
InitCorrect ==
    \E ev \in EventLists :
        /\ doc = SoundDoc
        /\ pc = "probe"
        /\ err = "none"
        /\ game = NoGame
        /\ contestants = <<>>
        /\ heap = <<>>
        /\ score_data = None
        /\ frame = [t \in Callers |-> Idle]
        /\ ret = [t \in Callers |-> None]
        /\ calls = 0
        /\ builds = 0
        /\ first_ret = None
        /\ build_out = <<>>
        /\ restored = None
        /\ probe = [NoProbe EXCEPT !.events = ev]

\* a program that asks a Clue for its verdicts
NextCorrect == AskCorrect \/ AskFirst

SpecCorrect == InitCorrect /\ [][NextCorrect]_vars

----------------------------------------------------------------------------
(* Properties *)

FirstRounds == {"jeopardy_round", "double_jeopardy_round"}

\* the short name occurs in the response events of the clue
NamedIn(clue, first_name) ==
    \E k \in 1..Len(clue.correct) : clue.correct[k][1] = first_name

\* the first response event of the clue that names first_name
FirstEvent(clue, first_name) ==
    clue.correct[CHOOSE k \in 1..Len(clue.correct) :
                    /\ clue.correct[k][1] = first_name
                    /\ \A j \in 1..(k - 1) : clue.correct[j][1] # first_name]

\* the largest reveal order of round r of the built Game, 0 without one
MaxRevealOrder(r) ==
    LET orders == {The(game.clues[r][k].order_num) :
                     k \in {j \in 1..Len(game.clues[r]) :
                              ~IsNone(game.clues[r][j].order_num)}}
    IN  IF orders = {} THEN 0
        ELSE CHOOSE m \in orders : \A x \in orders : x <= m

\* the slot the specification gives a clue of round r
SlotFor(r, clue) ==
    The(clue.order_num)
    + (IF r = "double_jeopardy_round" THEN MaxRevealOrder("jeopardy_round")
       ELSE 0)

\* the slot the specification gives the final round
FinalSlot ==
    MaxRevealOrder("jeopardy_round") + MaxRevealOrder("double_jeopardy_round")
    + 1

SignedAmount(v, right) == IF right THEN v ELSE 0 - v

\* a money text without currency symbol, grouping commas and blanks
MoneyValue(text) == DigitsValue(SelectSeq(text, IsDigit), 0)

\* the buffer of contestant c
Buffer(c) == heap[contestants[c].score_series]

\* the first run of the builder has made all its writes and has not yet
\* summed the buffers
WritesDone == pc = "built" /\ builds = 1 /\ frame["main"].pc = "series"

\* the first run of the builder has returned
SeriesBuilt == Len(build_out) >= 1

\* the series the first run of the builder returned for contestant c
FirstSeries(c) == build_out[1][contestants[c].name]

\* the final clue of the built Game
FinalClue == game.clues["final_jeopardy_round"][1]

\* the delta the specification gives contestant c at a slot: that of the
\* clue of the first two rounds with this slot that names c, that of the
\* final round at the final slot (last), 0 otherwise
DeltaAt(c, slot, last) ==
    LET fn == contestants[c].first_name
        hits == {h \in FirstRounds
                       \X (1..(Len(game.clues["jeopardy_round"])
                               + Len(game.clues["double_jeopardy_round"]))) :
                   /\ h[2] <= Len(game.clues[h[1]])
                   /\ ~IsNone(game.clues[h[1]][h[2]].order_num)
                   /\ SlotFor(h[1], game.clues[h[1]][h[2]]) = slot
                   /\ NamedIn(game.clues[h[1]][h[2]], fn)}
    IN  IF slot > last THEN 0
        ELSE IF hits # {}
        THEN LET h == CHOOSE x \in hits : TRUE
                 clue == game.clues[h[1]][h[2]]
             IN  SignedAmount(clue.value, FirstEvent(clue, fn)[2])
        ELSE IF /\ game.clues["final_jeopardy_round"] # <<>>
                /\ slot = last
                /\ NamedIn(FinalClue, fn)
        THEN SignedAmount(MoneyValue(FirstEvent(FinalClue, fn)[3]),
                          FirstEvent(FinalClue, fn)[2])
        ELSE 0

\* C1: restoring a Game from its __dict__() completes without error and
\* yields a Game with the same identifier, title, date fields, categories,
\* clues and contestants
C1_RoundTrip ==
    ~IsNone(restored) =>
        /\ The(restored).err = "none"
        /\ The(restored).game.id_ = game.id_
        /\ The(restored).game.title = game.title
        /\ The(restored).game.game_number = game.game_number
        /\ The(restored).game.weekday = game.weekday
        /\ The(restored).game.month = game.month
        /\ The(restored).game.day = game.day
        /\ The(restored).game.year = game.year
        /\ The(restored).game.date = game.date
        /\ The(restored).game.categories = game.categories
        /\ The(restored).game.clues = game.clues
        /\ "contestants" \in The(restored).game.attrs

\* C2: over any sequence of score_graph() calls _make_score_data is entered
\* at most once, its result stays in score_data, and every call returns the
\* dict and the series the first call returned
C2_ComputedOnce ==
    /\ builds <= 1
    /\ ~IsNone(first_ret) => ~IsNone(score_data)
    /\ \A t \in Callers :
          ~IsNone(ret[t]) =>
              /\ The(ret[t]).dict = The(score_data)
              /\ The(ret[t]).vals = The(first_ret)
    /\ ~IsNone(score_data) =>
          SeriesOf(The(score_data), heap) = The(first_ret)

\* a second score_graph() call has returned on a Game with a non-zero score
C2_Witness ==
    /\ calls >= 2
    /\ builds = 1
    /\ frame["main"].pc = "idle"
    /\ ~IsNone(ret["main"])
    /\ \E n \in DOMAIN The(ret["main"]).vals :
          \E i \in 1..Len(The(ret["main"]).vals[n]) :
              The(ret["main"]).vals[n][i] # 0

\* C3: a second run of _make_score_data on the same Game returns, for every
\* contestant, the series the first run returned
C3_Idempotent == Len(build_out) >= 2 => build_out[2] = build_out[1]

\* C4: once the builder has made its writes, every clue of the first two
\* rounds with reveal order n has put, for every contestant its events name,
\* +value (first event of the contestant right) or -value (wrong) at slot n
\* (first round) or n + the first round's largest reveal order (second)
C4_DeltaAtSlot ==
    WritesDone =>
        \A r \in FirstRounds :
            \A k \in 1..Len(game.clues[r]) :
                \A c \in 1..Len(contestants) :
                    (/\ ~IsNone(game.clues[r][k].order_num)
                     /\ NamedIn(game.clues[r][k], contestants[c].first_name))
                    => Buffer(c)[SlotFor(r, game.clues[r][k]) + 1]
                         = SignedAmount(
                              game.clues[r][k].value,
                              FirstEvent(game.clues[r][k],
                                         contestants[c].first_name)[2])

\* a clue of the second round has booked a loss behind a played first round
C4_Witness ==
    /\ WritesDone
    /\ MaxRevealOrder("jeopardy_round") > 0
    /\ \E k \in 1..Len(game.clues["double_jeopardy_round"]) :
          \E c \in 1..Len(contestants) :
              LET clue == game.clues["double_jeopardy_round"][k]
              IN  /\ ~IsNone(clue.order_num)
                  /\ NamedIn(clue, contestants[c].first_name)
                  /\ ~FirstEvent(clue, contestants[c].first_name)[2]
                  /\ Buffer(c)[SlotFor("double_jeopardy_round", clue) + 1] < 0

\* C5: the series the builder returns is the running sum of the deltas:
\* slot 0 is 0 and slot i is slot i-1 plus the delta of slot i
C5_RunningSum ==
    SeriesBuilt =>
        LET last == FinalSlot
        IN  \A c \in 1..Len(contestants) :
                LET s == FirstSeries(c)
                IN  /\ s[1] = 0
                    /\ \A i \in 2..Len(s) :
                          s[i] = s[i - 1] + DeltaAt(c, i - 1, last)

\* a series in which a delta was added to a non-zero total
C5_Witness ==
    /\ SeriesBuilt
    /\ \E c \in 1..Len(contestants) :
          \E i \in 3..Len(FirstSeries(c)) :
              /\ FirstSeries(c)[i - 1] # 0
              /\ FirstSeries(c)[i] # FirstSeries(c)[i - 1]
              /\ FirstSeries(c)[i] # 0

\* C6: with a final clue, every contestant it names has at the slot after
\* the two rounds' largest reveal orders the wager of their row, read from
\* its text without currency symbol and commas and negated if wrong, and
\* every contestant's buffer and series end with this slot
C6_FinalSlot ==
    /\ (WritesDone /\ game.clues["final_jeopardy_round"] # <<>>) =>
          \A c \in 1..Len(contestants) :
              /\ Len(Buffer(c)) = FinalSlot + 1
              /\ NamedIn(FinalClue, contestants[c].first_name) =>
                    Buffer(c)[FinalSlot + 1]
                      = SignedAmount(
                           MoneyValue(FirstEvent(FinalClue,
                                                 contestants[c].first_name)[3]),
                           FirstEvent(FinalClue, contestants[c].first_name)[2])
    /\ (SeriesBuilt /\ game.clues["final_jeopardy_round"] # <<>>) =>
          \A c \in 1..Len(contestants) : Len(FirstSeries(c)) = FinalSlot + 1

\* a final clue behind two played rounds in which a wager with a comma was
\* lost
C6_Witness ==
    /\ WritesDone
    /\ game.clues["final_jeopardy_round"] # <<>>
    /\ MaxRevealOrder("jeopardy_round") > 0
    /\ MaxRevealOrder("double_jeopardy_round") > 0
    /\ \E c \in 1..Len(contestants) :
          /\ NamedIn(FinalClue, contestants[c].first_name)
          /\ Buffer(c)[FinalSlot + 1] = 0 - 1000

\* no response event of any clue of the built Game names contestant c
Silent(c) ==
    \A r \in RoundNames :
        \A k \in 1..Len(game.clues[r]) :
            ~NamedIn(game.clues[r][k], contestants[c].first_name)

\* C7: a contestant no response event of any clue names has a series that
\* is 0 at every slot
C7_SilentZero ==
    SeriesBuilt =>
        \A c \in 1..Len(contestants) :
            Silent(c) => \A i \in 1..Len(FirstSeries(c)) : FirstSeries(c)[i] = 0

\* a game in which Ann is named by no event and somebody else has scored
C7_Witness ==
    /\ SeriesBuilt
    /\ \E c \in 1..Len(contestants) :
          contestants[c].first_name = "Ann" /\ Silent(c)
    /\ \E c \in 1..Len(contestants) :
          \E i \in 1..Len(FirstSeries(c)) : FirstSeries(c)[i] # 0

\* clue cell fr has neither value cell, or its annotation has no target
DataDefect(fr) ==
    \/ IsNone(fr.value_cell) /\ IsNone(fr.dd_cell)
    \/ ~IsNone(fr.annot) /\ IsNone(The(fr.annot).target)

\* the annotation of the final round has no target or a row with an
\* outcome token other than right and wrong
FinalDefect(d) ==
    /\ ~IsNone(d.final_annot)
    /\ \/ IsNone(The(d.final_annot).target)
       \/ \E i \in 1..(Len(The(d.final_annot).cells) \div 3) :
             The(d.final_annot).cells[3 * i - 2][1] \notin {"right", "wrong"}

\* the k-th clue cell of d has a clue-scoped data error
Defective(d, k) ==
    IF d.frags[k].anc = "final_jeopardy_round" THEN FinalDefect(d)
    ELSE DataDefect(d.frags[k])

\* the clues of the built Game
ClueCount ==
    Len(game.clues["jeopardy_round"]) + Len(game.clues["double_jeopardy_round"])
    + Len(game.clues["final_jeopardy_round"])

\* C8: a clue-scoped data error (no value cell of either kind, no target,
\* an unrecognized outcome token in a final row) leaves Game construction
\* complete, with every other revealed clue in the Game
C8_ClueScoped ==
    (/\ pc # "new"
     /\ \E k \in 1..Len(doc.frags) : Defective(doc, k)) =>
        /\ pc = "built"
        /\ err = "none"
        /\ ClueCount = Cardinality({k \in 1..Len(doc.frags) :
                                      ~Defective(doc, k)})

\* clue cell fr of the first two rounds has an annotation without outcome
\* rows, and nothing else is missing
ZeroRows(fr) ==
    /\ fr.anc \in FirstRounds
    /\ ~IsNone(fr.annot)
    /\ ~IsNone(The(fr.annot).target)
    /\ The(fr.annot).rows = <<>>
    /\ ~DataDefect(fr)

\* C9: a clue of the first two rounds whose annotation has no outcome row
\* is built without exception and kept with an empty response-event list
C9_ZeroRows ==
    \A k \in 1..Len(doc.frags) :
        (pc # "new" /\ ZeroRows(doc.frags[k])) =>
            /\ pc = "built"
            /\ err = "none"
            /\ \E j \in 1..Len(game.clues[doc.frags[k].anc]) :
                  /\ game.clues[doc.frags[k].anc][j].row = Some(doc.frags[k].row)
                  /\ game.clues[doc.frags[k].anc][j].column
                       = Some(doc.frags[k].col)
                  /\ "correct" \in game.clues[doc.frags[k].anc][j].attrs
                  /\ game.clues[doc.frags[k].anc][j].correct = <<>>

C11_CategoryIndex ==
    pc = "built" =>
        \A r \in RoundNames :
            \A k \in 1..Len(game.clues[r]) :
                IF game.clues[r][k].round_ = "final_jeopardy_round"
                THEN /\ IsNone(game.clues[r][k].row)
                     /\ IsNone(game.clues[r][k].column)
                     /\ game.categories["final_jeopardy_round"]
                          = <<game.clues[r][k].category>>
                ELSE /\ ~IsNone(game.clues[r][k].column)
                     /\ The(game.clues[r][k].column) >= 1
                     /\ The(game.clues[r][k].column)
                          <= Len(game.categories[game.clues[r][k].round_])
                     /\ game.clues[r][k].category
                          = game.categories[game.clues[r][k].round_]
                                           [The(game.clues[r][k].column)]

\* a built Game with a clue in the second column and a final clue
C11_Witness ==
    /\ pc = "built"
    /\ game.clues["final_jeopardy_round"] # <<>>
    /\ \E r \in FirstRounds :
          \E k \in 1..Len(game.clues[r]) :
              /\ game.clues[r][k].column = Some(2)
              /\ game.clues[r][k].category = game.categories[r][2]

\* the clue made of the k-th clue cell of document d (a revealed cell):
\* _parse_clues appends it to the list of the round of its container
ClueOfFrag(d, k) ==
    game.clues[d.frags[k].anc]
              [Cardinality({j \in 1..k : /\ d.frags[j].anc = d.frags[k].anc
                                         /\ d.frags[j].revealed})]

\* the clue cells of d whose coordinates name another round than their
\* container
Conflicting(d) ==
    {k \in 1..Len(d.frags) :
        RoundOfCode(d.frags[k].idrnd) # d.frags[k].anc}

\* C12: when the round decoded from the coordinates of a clue cell differs
\* from the round of its container, the Game is built all the same; the
\* round of the clue is the decoded round, its category is the one the
\* decoded round's category list holds for its column (the only one of the
\* final round), and the warning has been printed
C12_DecodedRoundWins ==
    (pc # "new" /\ Conflicting(doc) # {}) =>
        /\ pc = "built"
        /\ \A k \in Conflicting(doc) :
              /\ ClueOfFrag(doc, k).round_ = RoundOfCode(doc.frags[k].idrnd)
              /\ ClueOfFrag(doc, k).warned
              /\ ClueOfFrag(doc, k).category =
                    game.categories[RoundOfCode(doc.frags[k].idrnd)]
                                   [IF doc.frags[k].idrnd = "FJ" THEN 1
                                    ELSE doc.frags[k].col]

\* a built Game with a final-round cell among the cells of the first round
\* and a first-round cell in the final round's container
C12_Witness ==
    /\ pc = "built"
    /\ \E k \in Conflicting(doc) :
          /\ doc.frags[k].idrnd = "FJ"
          /\ doc.frags[k].anc = "jeopardy_round"
          /\ ClueOfFrag(doc, k).round_ = "final_jeopardy_round"
          /\ ClueOfFrag(doc, k).category = "poets"
    /\ \E k \in Conflicting(doc) :
          /\ doc.frags[k].idrnd = "J"
          /\ doc.frags[k].anc = "final_jeopardy_round"
          /\ ClueOfFrag(doc, k).round_ = "jeopardy_round"
          /\ ClueOfFrag(doc, k).warned

\* C13: from a document without clue cells (and with a title of the known
\* form) a Game is built without error whose clues and categories each have
\* the three rounds as keys, every one with an empty list
C13_EmptyGame ==
    (pc # "new" /\ Len(doc.frags) = 0 /\ doc.title \notin BadTitles) =>
        /\ pc = "built"
        /\ err = "none"
        /\ DOMAIN game.clues = RoundNames
        /\ DOMAIN game.categories = RoundNames
        /\ \A r \in RoundNames :
              game.clues[r] = <<>> /\ game.categories[r] = <<>>

\* a Game built from a document that has the category cells of the first
\* round and no clue cell
C13_Witness ==
    /\ pc = "built"
    /\ Len(doc.frags) = 0
    /\ ~IsNone(doc.containers["jeopardy_round"])
    /\ The(doc.containers["jeopardy_round"]) # <<>>
    /\ game.categories["jeopardy_round"] = <<>>
    /\ game.clues["final_jeopardy_round"] = <<>>

\* the rounds whose container the document lacks
Absent(d) == {r \in RoundNames : IsNone(d.containers[r])}

\* C14: from a document with clue cells that lacks the container of a
\* round, the categories are indexed without failure and the list of that
\* round is empty
C14_AbsentContainer ==
    (/\ pc # "new"
     /\ Len(doc.frags) > 0
     /\ Absent(doc) # {}
     /\ doc.title \notin BadTitles) =>
        /\ pc = "built"
        /\ \A r \in Absent(doc) : game.categories[r] = <<>>

\* the revealed clue cells of d for which _set_value looks for a value: in
\* the container of one of the first two rounds, with coordinates that do
\* not name the final round
Valued(d) ==
    {k \in 1..Len(d.frags) :
        /\ d.frags[k].revealed
        /\ d.frags[k].anc \in FirstRounds
        /\ d.frags[k].idrnd # "FJ"}

\* the revealed clue cell k of d lacks its annotation
Unannotated(d, k) ==
    /\ d.frags[k].revealed
    /\ IsNone(IF d.frags[k].anc = "final_jeopardy_round"
                 /\ d.frags[k].idrnd = "FJ"
              THEN d.final_annot ELSE d.frags[k].annot)

\* C15: the value of a clue of the first two rounds. With a clue_value cell
\* the clue is no daily double and its value is the integer its text shows
\* after the '$' ("$600": 600); else with a clue_value_daily_double cell
\* the clue is a daily double and its value is the integer after 'DD: $'
\* without commas ("DD: $1,000": 1000); with neither cell the construction
\* of the clue raises ValueError. The value is an integer. No other cell
\* raises ValueError for its value.
C15_ValueResolved ==
    /\ pc = "built" =>
          \A k \in Valued(doc) :
              /\ "value" \in ClueOfFrag(doc, k).attrs
              /\ ClueOfFrag(doc, k).value \in Nat
              /\ IF ~IsNone(doc.frags[k].value_cell)
                 THEN /\ ~ClueOfFrag(doc, k).daily_double
                      /\ ClueOfFrag(doc, k).value
                           = MoneyValue(The(doc.frags[k].value_cell))
                 ELSE /\ ~IsNone(doc.frags[k].dd_cell)
                      /\ ClueOfFrag(doc, k).daily_double
                      /\ ClueOfFrag(doc, k).value
                           = MoneyValue(The(doc.frags[k].dd_cell))
    /\ (/\ pc # "new"
        /\ doc.title \notin BadTitles
        /\ Absent(doc) = {}
        /\ \E k \in Valued(doc) : /\ IsNone(doc.frags[k].value_cell)
                                  /\ IsNone(doc.frags[k].dd_cell)) =>
          pc = "failed" /\ err = "ValueError"
    /\ (pc = "failed" /\ err = "ValueError") =>
          \E k \in 1..Len(doc.frags) :
              Defective(doc, k) \/ Unannotated(doc, k)

\* a built Game with a clue of value 600 from the cell "$600" and a daily
\* double of value 1000 from the cell "DD: $1,000"
C15_Witness ==
    /\ pc = "built"
    /\ \E k \in Valued(doc) :
          /\ doc.frags[k].value_cell = Some(<<"$", "6", "0", "0">>)
          /\ ClueOfFrag(doc, k).value = 600
          /\ ~ClueOfFrag(doc, k).daily_double
    /\ \E k \in Valued(doc) :
          /\ IsNone(doc.frags[k].value_cell)
          /\ doc.frags[k].dd_cell
               = Some(<<"D", "D", ":", " ", "$", "1", ",", "0", "0", "0">>)
          /\ ClueOfFrag(doc, k).value = 1000
          /\ ClueOfFrag(doc, k).daily_double

\* the revealed first-round clue cells of d without an order number cell
Unordered(d) ==
    {k \in Valued(d) : IsNone(d.frags[k].order_cell)}

\* C16: a clue cell of the first two rounds without an order number cell is
\* no error. Its clue is in the list of its round with order_num None; the
\* builder passes it by: once the writes are made the offset is the largest
\* order number of the first round, the final slot follows the largest
\* slot of the ordered clues, and every slot of every buffer holds what the
\* ordered clues and the final round put there
C16_UnorderedKept ==
    /\ (pc # "new" /\ Unordered(doc) # {} /\ doc \notin DefectDocs) =>
          /\ pc = "built"
          /\ \A k \in Unordered(doc) :
                /\ ClueOfFrag(doc, k).kind = "Clue"
                /\ "order_num" \in ClueOfFrag(doc, k).attrs
                /\ IsNone(ClueOfFrag(doc, k).order_num)
    /\ (WritesDone /\ Unordered(doc) # {}) =>
          /\ frame["main"].offset = MaxRevealOrder("jeopardy_round")
          /\ frame["main"].max_i + 1 = FinalSlot
          /\ \A c \in 1..Len(contestants) :
                \A s \in 1..Len(Buffer(c)) :
                    Buffer(c)[s] = DeltaAt(c, s - 1, FinalSlot)

\* the builder has made its writes for a Game with an ordered clue, a final
\* clue and a clue without order number whose contestant no ordered clue
\* names: the buffer of that contestant is 0 but for the final slot, which
\* follows the ordered clue
C16_Witness ==
    /\ WritesDone
    /\ game.clues["final_jeopardy_round"] # <<>>
    /\ MaxRevealOrder("jeopardy_round") > 0
    /\ \E k \in Unordered(doc) :
          \E c \in 1..Len(contestants) :
              /\ ClueOfFrag(doc, k).value > 0
              /\ NamedIn(ClueOfFrag(doc, k), contestants[c].first_name)
              /\ Len(Buffer(c)) = FinalSlot + 1
              /\ Buffer(c)[FinalSlot + 1] # 0
              /\ \A s \in 1..FinalSlot : Buffer(c)[s] = 0

\* C17: score_graph() on a Game restored from __dict__() returns without
\* error, and when the original Game has computed its timeline the series
\* it returns are those of the original
C17_RestoredTimeline ==
    (~IsNone(restored) /\ ~IsNone(The(restored).graph)) =>
        /\ The(The(restored).graph).err = "none"
        /\ ~IsNone(first_ret) =>
              The(The(restored).graph).vals = The(first_ret)

\* the exception a clue-scoped data error raises (no value cell of either
\* kind, no target, an outcome token other than right and wrong)
DataErrors == {"ValueError"}

\* C18: a title that title_regex does not match ends Game construction
\* with an exception and no Game, whatever else the document holds, and
\* that exception is of another kind than the one a clue-scoped data error
\* raises; a title the pattern matches gives the Game its number and date
C18_TitleFatal ==
    /\ (pc # "new" /\ doc.title \in BadTitles) =>
          /\ pc = "failed"
          /\ game = NoGame
          /\ err = "AttributeError"
          /\ err \notin DataErrors
    /\ (/\ pc # "new"
        /\ doc.title \notin BadTitles
        /\ Absent(doc) = {}
        /\ \E k \in 1..Len(doc.frags) :
              doc.frags[k].revealed /\ Defective(doc, k)) =>
          pc = "failed" /\ err \in DataErrors
    /\ (pc = "built" /\ doc.title \notin BadTitles) =>
          /\ game.game_number = "4596"
          /\ game.weekday = "Monday"
          /\ game.date = <<"6", "September", "2004">>

\* construction has failed on a document that is sound but for its title,
\* which has number and date but no '#'
C18_Witness ==
    /\ pc = "failed"
    /\ err = "AttributeError"
    /\ doc.title.text = "Show 4596 - Monday, September 6, 2004"
    /\ doc.frags = SoundDoc.frags
    /\ doc.final_annot = SoundDoc.final_annot

\* the td cells of the annotation of the final round of d
FinalCellsOf(d) == The(d.final_annot).cells

\* C19: in every final clue of a built Game contestants, responses, wagers
\* and the response events have the same length, the number of complete
\* groups of three td cells of the annotation; entry i of each comes from
\* the cells 3i-2, 3i-1 and 3i (outcome and name, response, wager), and the
\* cells of an incomplete last group are in none of them
C19_FinalListsAligned ==
    pc = "built" =>
        \A k \in 1..Len(game.clues["final_jeopardy_round"]) :
            /\ Len(game.clues["final_jeopardy_round"][k].responses)
                 = Len(game.clues["final_jeopardy_round"][k].contestants)
            /\ Len(game.clues["final_jeopardy_round"][k].wagers)
                 = Len(game.clues["final_jeopardy_round"][k].contestants)
            /\ Len(game.clues["final_jeopardy_round"][k].correct)
                 = Len(game.clues["final_jeopardy_round"][k].contestants)
            /\ Conflicting(doc) = {} =>
                  /\ Len(FinalClue.contestants) = Len(FinalCellsOf(doc)) \div 3
                  /\ \A i \in 1..Len(FinalClue.contestants) :
                        /\ FinalClue.contestants[i]
                             = FinalCellsOf(doc)[3 * i - 2][2]
                        /\ FinalClue.responses[i]
                             = FinalCellsOf(doc)[3 * i - 1][2]
                        /\ FinalClue.wagers[i] = FinalCellsOf(doc)[3 * i][2]
                        /\ FinalClue.correct[i]
                             = <<FinalCellsOf(doc)[3 * i - 2][2],
                                 FinalCellsOf(doc)[3 * i - 2][1] = "right",
                                 FinalCellsOf(doc)[3 * i][2]>>

\* a final clue built from five cells: one contestant record, the name and
\* the response of the second contestant are in no list
C19_Witness ==
    /\ pc = "built"
    /\ game.clues["final_jeopardy_round"] # <<>>
    /\ Len(FinalCellsOf(doc)) = 5
    /\ FinalClue.contestants = <<"Ann">>
    /\ Len(FinalClue.wagers) = 1
    /\ Len(FinalClue.correct) = 1

\* the clue cells of d that are unrevealed
Hidden(d) == {k \in 1..Len(d.frags) : ~d.frags[k].revealed}

\* C20: an unrevealed clue cell raises nothing and is in no list of clues;
\* the revealed cells before and after it are built and stand in the list
\* of their round in the order of the document
C20_UnrevealedSkipped ==
    (pc # "new" /\ Hidden(doc) # {}) =>
        /\ pc = "built"
        /\ err = "none"
        /\ \A r \in RoundNames :
              Len(game.clues[r])
                = Cardinality({k \in 1..Len(doc.frags) :
                                  doc.frags[k].anc = r /\ doc.frags[k].revealed})
        /\ \A k \in 1..Len(doc.frags) :
              doc.frags[k].revealed =>
                  /\ ClueOfFrag(doc, k).round_ = doc.frags[k].anc
                  /\ k \in Valued(doc) =>
                        /\ ClueOfFrag(doc, k).row = Some(doc.frags[k].row)
                        /\ ClueOfFrag(doc, k).column = Some(doc.frags[k].col)
                        /\ ClueOfFrag(doc, k).order_num
                             = Some(MoneyValue(The(doc.frags[k].order_cell)))
                        /\ ClueOfFrag(doc, k).daily_double
                             = IsNone(doc.frags[k].value_cell)

\* a Game built from the first and the third of three clue cells of the
\* first two rounds, the second being unrevealed
C20_Witness ==
    /\ pc = "built"
    /\ Hidden(doc) = {2}
    /\ doc.frags[1].anc = "jeopardy_round"
    /\ doc.frags[2].anc = "jeopardy_round"
    /\ doc.frags[3].anc = "double_jeopardy_round"
    /\ Len(game.clues["jeopardy_round"]) = 1
    /\ game.clues["jeopardy_round"][1].column = Some(doc.frags[1].col)
    /\ Len(game.clues["double_jeopardy_round"]) = 1
    /\ game.clues["double_jeopardy_round"][1].daily_double
    /\ Len(game.clues["final_jeopardy_round"]) = 1

\* C21: Clue.correct('fr') returns True when the first response event is
\* correct, False when it is incorrect and False when the clue has no
\* response event; it raises nothing for an empty list
C21_FirstResponse ==
    probe.asked_fr =>
        /\ probe.fr \in {"True", "False"}
        /\ probe.fr = "True"
              <=> (probe.events # <<>> /\ probe.events[1][2])

\* C22: in a built Game every clue in the list of round r has round_ r,
\* and a clue is a FinalJeopardyClue exactly when its round_ (the round of
\* the coordinates, where that differs from the container's) is the final
\* round
C22_RoutedByRound ==
    pc = "built" =>
        \A r \in RoundNames :
            \A k \in 1..Len(game.clues[r]) :
                /\ game.clues[r][k].round_ = r
                /\ game.clues[r][k].kind = "Final"
                      <=> game.clues[r][k].round_ = "final_jeopardy_round"

\* C23: with score_graph() called on one Game from several threads,
\* _make_score_data is entered at most once and at most one run of it
\* writes deltas and sums the buffers
C23_ComputedOnceThreads ==
    builds <= 1 /\ Len(build_out) <= 1

\* C24: no step of a score_graph() call changes the Game's identifier,
\* title, date fields, categories or clues, nor the number, names, short
\* names, links and descriptions of its contestants; score_data and the
\* contestants' buffers are all that changes
C24_ImmutableGame ==
    [][pc = "built" =>
          /\ game' = game
          /\ Len(contestants') = Len(contestants)
          /\ \A c \in 1..Len(contestants) :
                /\ contestants'[c].name = contestants[c].name
                /\ contestants'[c].first_name = contestants[c].first_name
                /\ contestants'[c].link = contestants[c].link
                /\ contestants'[c].flavor = contestants[c].flavor]_vars

\* two score_graph() calls have returned on a Game with clues of all three
\* rounds, and a buffer is no longer all zero
C24_Witness ==
    /\ pc = "built"
    /\ calls >= 2
    /\ ~IsNone(score_data)
    /\ frame["main"].pc = "idle"
    /\ \A r \in RoundNames : game.clues[r] # <<>>
    /\ \E c \in 1..Len(contestants) :
          \E s \in 1..Len(Buffer(c)) : Buffer(c)[s] # 0

\* every order number of document d is between 1 and MaxReveal
RegularOrders(d) ==
    \A k \in 1..Len(d.frags) :
        IsNone(d.frags[k].order_cell)
        \/ MoneyValue(The(d.frags[k].order_cell)) \in 1..MaxReveal

\* the slot the builder is about to write for caller t: that of the clue
\* at hand in the loops of the first two rounds (None for a clue without
\* order number and at the end of a loop), max_i + 1 in the final round
SlotAtHand(t) ==
    IF frame[t].pc \in {"J", "DJ"}
    THEN LET r == IF frame[t].pc = "J" THEN "jeopardy_round"
                  ELSE "double_jeopardy_round"
         IN  IF frame[t].k > Len(game.clues[r])
                \/ IsNone(game.clues[r][frame[t].k].order_num)
             THEN None
             ELSE Some(The(game.clues[r][frame[t].k].order_num)
                       + (IF frame[t].pc = "DJ" THEN frame[t].offset ELSE 0))
    ELSE IF frame[t].pc = "FJ"
            /\ frame[t].k <= Len(game.clues["final_jeopardy_round"])
    THEN Some(frame[t].max_i + 1)
    ELSE None

\* C25: with buffers of 70 slots and order numbers between 1 and 30 in
\* each of the first two rounds, every slot the builder is about to write
\* is between 1 and 69, slot 0 of every buffer of the first run stays 0
\* until the sums are made, and the builder never calls exit()
C25_SlotsInBuffer ==
    (pc # "new" /\ RegularOrders(doc)) =>
        /\ pc # "exited"
        /\ err # "exit"
        /\ ~IsNone(SlotAtHand("main")) =>
              The(SlotAtHand("main")) \in 1..(BufLen - 1)
        /\ (builds = 1 /\ frame["main"].pc \in {"J", "DJ", "FJ", "series"}) =>
              \A c \in 1..Len(contestants) :
                  /\ Len(Buffer(c)) <= BufLen
                  /\ Buffer(c)[1] = 0

\* the builder has made its writes for a Game whose rounds both end with
\* order number 30: the final slot is 61 and holds a wager
C25_Witness ==
    /\ WritesDone
    /\ RegularOrders(doc)
    /\ MaxRevealOrder("jeopardy_round") = MaxReveal
    /\ MaxRevealOrder("double_jeopardy_round") = MaxReveal
    /\ FinalSlot = 2 * MaxReveal + 1
    /\ \E c \in 1..Len(contestants) :
          /\ Buffer(c)[2 * MaxReveal + 1] # 0
          /\ Buffer(c)[FinalSlot + 1] # 0

\* the response events of the clue that name first_name
EventsOf(clue, first_name) ==
    {k \in 1..Len(clue.correct) : clue.correct[k][1] = first_name}

\* C26: a clue of the first two rounds with several response events for
\* one contestant moves that contestant's series by one delta at its slot:
\* +value when the first of these events is right, -value when it is
\* wrong, whatever the later ones are
C26_FirstEventDecides ==
    SeriesBuilt =>
        \A r \in FirstRounds :
            \A k \in 1..Len(game.clues[r]) :
                \A c \in 1..Len(contestants) :
                    (/\ ~IsNone(game.clues[r][k].order_num)
                     /\ Cardinality(EventsOf(game.clues[r][k],
                                             contestants[c].first_name)) >= 2)
                    => FirstSeries(c)[SlotFor(r, game.clues[r][k]) + 1]
                       - FirstSeries(c)[SlotFor(r, game.clues[r][k])]
                         = SignedAmount(
                              game.clues[r][k].value,
                              FirstEvent(game.clues[r][k],
                                         contestants[c].first_name)[2])

\* the series are built for a Game with a clue of value 600 that Bob
\* answered wrong first and right later: his series falls by 600 there
C26_Witness ==
    /\ SeriesBuilt
    /\ \E r \in FirstRounds :
          \E k \in 1..Len(game.clues[r]) :
              \E c \in 1..Len(contestants) :
                  /\ contestants[c].first_name = "Bob"
                  /\ ~IsNone(game.clues[r][k].order_num)
                  /\ game.clues[r][k].value = 600
                  /\ game.clues[r][k].correct
                       = << <<"Bob", FALSE>>, <<"Ann", FALSE>>, <<"Bob", TRUE>> >>
                  /\ FirstSeries(c)[SlotFor(r, game.clues[r][k]) + 1]
                     - FirstSeries(c)[SlotFor(r, game.clues[r][k])] = -600

====
